---- MODULE Spec2Model ----
(***************************************************************************)
(* Model of the bread-world dough solver (crates/bread-world/src/lib.rs)   *)
(* and of the ingredient model it reads (crates/bread-world-models).       *)
(*                                                                         *)
(* Masses and ratios are f64 in the source; they are modelled as exact     *)
(* rationals <<n, d>> (d > 0, lowest terms), so that an equality of the    *)
(* model implies the source's 0.1% relative tolerance.  The IEEE results   *)
(* of a division by zero are kept as the values NaN, Inf and NegInf, and   *)
(* an f64 too large for x + 1.0 to differ from x as the value Huge.        *)
(*                                                                         *)
(* Also modelled: bread_solve, the earlier solver of the application       *)
(* (crates/bread-world/src/main.rs), and the handlers of the ingredients   *)
(* service (src/api/bread_world.rs) on the sled tree they share.           *)
(***************************************************************************)
EXTENDS Integers, Sequences, FiniteSets, TLC

VARIABLES mass, flour, wheat_proteins, hydratation, salt_ratio, ingredients,
          returned, debug_assertions, pc, result, solution, history,
          value, calls, tree, requests

vars == <<mass, flour, wheat_proteins, hydratation, salt_ratio, ingredients,
          returned, debug_assertions, pc, result, solution, history,
          value, calls, tree, requests>>

----------------------------------------------------------------------------
(* Exact rational arithmetic standing for f64.                             *)

Abs(a) == IF a < 0 THEN -a ELSE a

RECURSIVE Gcd(_, _)
Gcd(a, b) == IF b = 0 THEN a ELSE Gcd(b, a % b)

\* the rational n/d in lowest terms with a positive denominator
R(n, d) ==
    LET g == Gcd(Abs(n), Abs(d))
        s == IF d < 0 THEN -1 ELSE 1
    IN  <<s * (n \div g), s * (d \div g)>>

Zero == <<0, 1>>
One == <<1, 1>>
Int2R(n) == <<n, 1>>

Neg(a) == <<-a[1], a[2]>>

\* a + b; a sum with zero is the other term, already in lowest terms
Add(a, b) ==
    LET g == Gcd(a[2], b[2])
    IN  IF b[1] = 0 THEN a
        ELSE IF a[1] = 0 THEN b
        ELSE R(a[1] * (b[2] \div g) + b[1] * (a[2] \div g), (a[2] \div g) * b[2])

Sub(a, b) == Add(a, Neg(b))

Mul(a, b) ==
    LET g1 == Gcd(Abs(a[1]), b[2])
        g2 == Gcd(Abs(b[1]), a[2])
    IN  IF a[1] = 0 \/ b[1] = 0 THEN Zero
        ELSE <<(a[1] \div g1) * (b[1] \div g2), (a[2] \div g2) * (b[2] \div g1)>>

\* a / b for b # 0
Quot(a, b) ==
    IF b[1] < 0 THEN Mul(a, <<-b[2], -b[1]>>) ELSE Mul(a, <<b[2], b[1]>>)

Less(a, b) == Sub(a, b)[1] < 0

\* the results of an f64 division by zero
NaN == <<0, 0>>
Inf == <<1, 0>>
NegInf == <<-1, 0>>

IsFinite(a) == a[2] # 0

\* f64 division: 0/0 is NaN, x/0 is an infinity of the sign of x
FDiv(a, b) ==
    IF b[1] # 0 THEN Quot(a, b)
    ELSE IF a[1] = 0 THEN NaN
    ELSE IF a[1] > 0 THEN Inf ELSE NegInf

\* a finite f64 of 2^53 or more, for instance f64::MAX: x + 1.0 rounds back
\* to x.  Written with a negative denominator, which R never produces.
Huge == <<1, -1>>

IsHuge(a) == a[2] < 0

\* -a
F64Neg(a) == <<-a[1], a[2]>>

\* a + b in f64, for b below 2^53 in magnitude: a NaN stays, opposite
\* infinities give NaN, an infinity or a Huge absorbs a small term
F64Add(a, b) ==
    IF a = NaN \/ b = NaN THEN NaN
    ELSE IF a[2] = 0 THEN (IF b[2] = 0 /\ b # a THEN NaN ELSE a)
    ELSE IF b[2] = 0 THEN b
    ELSE IF IsHuge(a) THEN a
    ELSE IF IsHuge(b) THEN b
    ELSE Add(a, b)

F64Sub(a, b) == F64Add(a, F64Neg(b))

\* a / b in f64; the only quotient of a Huge formed is x / x, which is 1.0
F64Div(a, b) ==
    IF a = NaN \/ b = NaN THEN NaN
    ELSE IF a[2] = 0 THEN (IF b[2] = 0 THEN NaN
                           ELSE IF b[1] < 0 THEN F64Neg(a) ELSE a)
    ELSE IF b[2] = 0 THEN Zero
    ELSE IF IsHuge(a) /\ a = b THEN One
    ELSE FDiv(a, b)

\* a >= b in f64 for a rational b: false of a NaN
F64Ge(a, b) ==
    IF a = NaN THEN FALSE
    ELSE IF a[2] = 0 \/ IsHuge(a) THEN a[1] > 0
    ELSE ~Less(a, b)

\* a <= b in f64 for a rational b: false of a NaN
F64Le(a, b) ==
    IF a = NaN THEN FALSE
    ELSE IF a[2] = 0 \/ IsHuge(a) THEN a[1] < 0
    ELSE ~Less(b, a)

\* a sequence given by a function, evaluated once
Force(s) == s \o <<>>

RECURSIVE SumSeq(_)
SumSeq(s) == IF s = <<>> THEN Zero ELSE Add(s[1], SumSeq(Tail(s)))

----------------------------------------------------------------------------
(* bread-world-models: Ingredient and Dough                                *)

NOT_ZERO_THRESHOLD == R(1, 1000)

\* a variant of has_flour that takes every leavener for a flour carrier
has_flour_or_leavener(i) ==
    i.category = "Flour" \/ i.category = "Leavener" \/ i.kind = "SourdoughStarter"

has_flour(i) == i.category = "Flour" \/ i.kind = "SourdoughStarter"

flour_ratio(i) == IF has_flour(i) THEN Sub(One, i.water) ELSE Zero

\* a variant of has_water that is true from the threshold on
has_water_at_least(i) == ~Less(i.water, NOT_ZERO_THRESHOLD)

has_water(i) == Less(NOT_ZERO_THRESHOLD, i.water)

\* a variant of has_salt that counts any salt at all
has_salt_any(i) == Less(Zero, i.salt)

has_salt(i) == Less(NOT_ZERO_THRESHOLD, i.salt)

is_leavener(i) == i.category = "Leavener"

\* Dough::total_mass
DoughTotalMass(d) == SumSeq([k \in 1..Len(d.ingredients) |-> d.ingredients[k][2]])

\* Dough::hydratation
DoughHydratation(d) == FDiv(d.water, d.flour)

\* Dough::wheat_proteins_ratio
DoughWheatProteinsRatio(d) == FDiv(d.wheat_proteins, d.flour)

\* what a call of a conversion gives: a value, or a failed assertion
Returned(v) == [tag |-> "Ok", value |-> v]
AssertionFailed == [tag |-> "Panic", value |-> NaN]

\* a variant of hydratation_to_water_ratio that gives the flour's share
\* 1 / (h + 1) instead of the water's
hydratation_to_flour_ratio(h, debug) ==
    IF ~F64Ge(h, Zero) THEN AssertionFailed
    ELSE IF h = Inf THEN AssertionFailed
    ELSE Returned(F64Div(One, F64Add(h, One)))

\* a variant of hydratation_to_water_ratio that clamps its argument into the
\* domain instead of asserting
hydratation_to_water_ratio_clamping(h, debug) ==
    LET c == IF h = NaN \/ ~F64Ge(h, Zero) THEN Zero
             ELSE IF h = Inf THEN Huge ELSE h
    IN  Returned(F64Div(c, F64Add(c, One)))

\* hydratation_to_water_ratio: assert!(h >= 0), assert!(h != INFINITY),
\* h / (h + 1), and in a build with debug assertions 0 <= result <= 1
hydratation_to_water_ratio(h, debug) ==
    IF ~F64Ge(h, Zero) THEN AssertionFailed
    ELSE IF h = Inf THEN AssertionFailed
    ELSE LET water_ratio == F64Div(h, F64Add(h, One))
         IN  IF debug /\ ~(F64Ge(water_ratio, Zero) /\ F64Le(water_ratio, One))
             THEN AssertionFailed
             ELSE Returned(water_ratio)

\* a variant of water_ratio_to_hydratation that asserts w < 1
water_ratio_to_hydratation_below_one(w, debug) ==
    IF ~F64Ge(w, Zero) THEN AssertionFailed
    ELSE IF ~(F64Le(w, One) /\ w # One) THEN AssertionFailed
    ELSE Returned(F64Div(w, F64Sub(One, w)))

\* water_ratio_to_hydratation: assert!(w >= 0), assert!(w <= 1), w / (1 - w),
\* and in a build with debug assertions result >= 0
water_ratio_to_hydratation(w, debug) ==
    IF ~F64Ge(w, Zero) THEN AssertionFailed
    ELSE IF ~F64Le(w, One) THEN AssertionFailed
    ELSE LET h == F64Div(w, F64Sub(One, w))
         IN  IF debug /\ ~F64Ge(h, Zero) THEN AssertionFailed
             ELSE Returned(h)

----------------------------------------------------------------------------
(* Target                                                                  *)

\* Option<T>: None is <<>>, Some(v) is <<v>>
None == <<>>
Some(v) == <<v>>

TargetFree == [mass |-> None, ratio |-> None]
TargetByMass(v) == [mass |-> Some(v), ratio |-> None]
TargetByRatio(v) == [mass |-> None, ratio |-> Some(v)]

\* a variant of TargetBound that never fixes the variable
TargetBoundAlwaysFree(t) == <<>>

\* Target::bound: ellp::Bound::Fixed(m) is <<m>>, ellp::Bound::Free is <<>>
TargetBound(t) == IF t.mass # None THEN <<t.mass[1]>> ELSE <<>>

\* a variant of TargetRatio that reads the ratio as the share left over
TargetRatioComplement(t) == IF t.ratio # None THEN Some(Sub(One, t.ratio[1])) ELSE None

\* Target::ratio
TargetRatio(t) == t.ratio

----------------------------------------------------------------------------
(* ellp: the linear program and its solver.  A problem is a list of        *)
(* variables (objective coefficient, bound) and a list of equality         *)
(* constraints sum(coef * var) = rhs; variable ids count from 0.           *)

\* the coefficient of variable id v in a constraint
CoefOf(con, v) ==
    LET hits == {k \in 1..Len(con.coeffs) : con.coeffs[k][1] = v}
    IN  IF hits = {} THEN Zero ELSE con.coeffs[CHOOSE k \in hits : TRUE][2]

\* ids of the variables with Bound::Free, in increasing order
FreeVars(p) ==
    SelectSeq([k \in 1..Len(p.vars) |-> k - 1], LAMBDA v : p.vars[v + 1].bound = <<>>)

FixedVars(p) ==
    SelectSeq([k \in 1..Len(p.vars) |-> k - 1], LAMBDA v : p.vars[v + 1].bound # <<>>)

\* a constraint as a row over the free variables, the fixed ones moved to the
\* right-hand side (last entry)
DenseRow(p, con, free, fixed) ==
    LET K == Len(free)
        moved == SumSeq(Force([k \in 1..Len(fixed) |->
                     Mul(CoefOf(con, fixed[k]), p.vars[fixed[k] + 1].bound[1])]))
    IN  Force([c \in 1..(K + 1) |->
            IF c <= K THEN CoefOf(con, free[c]) ELSE Sub(con.rhs, moved)])

\* row - f * prow
RowSubMul(row, f, prow) ==
    Force([c \in 1..Len(row) |-> Sub(row[c], Mul(f, prow[c]))])

RowScale(row, f) == Force([c \in 1..Len(row) |-> Quot(row[c], f)])

\* Gauss-Jordan elimination, column by column; piv[c] is the row that holds
\* the pivot of column c, 0 if the column has none
RECURSIVE Eliminate(_, _, _, _)
Eliminate(M, c, K, piv) ==
    IF c > K THEN [M |-> M, piv |-> piv]
    ELSE
        LET used == {piv[k] : k \in 1..Len(piv)}
            cand == {r \in 1..Len(M) : r \notin used /\ M[r][c] # Zero}
        IN  IF cand = {} THEN Eliminate(M, c + 1, K, Append(piv, 0))
            ELSE
                LET r0 == CHOOSE r \in cand : \A q \in cand : r <= q
                    prow == RowScale(M[r0], M[r0][c])
                    M2 == Force([r \in 1..Len(M) |->
                              IF r = r0 THEN prow
                              ELSE IF M[r][c] = Zero THEN M[r]
                              ELSE RowSubMul(M[r], M[r][c], prow)])
                IN  Eliminate(M2, c + 1, K, Append(piv, r0))

\* the values a solver may give a variable the optimum leaves undetermined
SlackChoices == {Zero, One}

\* DualSimplexSolver::solve as the linear program it solves: minimise
\* sum(obj * var) subject to the constraints and the bounds.  The set of
\* results the solver may return: Infeasible, Unbounded, or an optimal point.
DualSimplexSolve(p) ==
    LET free == FreeVars(p)
        fixed == FixedVars(p)
        K == Len(free)
        NV == Len(p.vars)
        M0 == Force([k \in 1..Len(p.constraints) |->
                  DenseRow(p, p.constraints[k], free, fixed)])
        E == Eliminate(M0, 1, K, <<>>)
        M == E.M
        piv == E.piv
        inconsistent == \E r \in 1..Len(M) :
                            /\ M[r][K + 1] # Zero
                            /\ \A c \in 1..K : M[r][c] = Zero
        loose == {c \in 1..K : piv[c] = 0}
        \* change of the objective per unit of an undetermined variable
        reduced(c) == Sub(p.vars[free[c] + 1].obj,
                          SumSeq(Force([b \in 1..K |->
                              IF piv[b] = 0 THEN Zero
                              ELSE Mul(p.vars[free[b] + 1].obj, M[piv[b]][c])])))
        point(slack) ==
            [v \in 0..(NV - 1) |->
                IF p.vars[v + 1].bound # <<>> THEN p.vars[v + 1].bound[1]
                ELSE LET c == CHOOSE c \in 1..K : free[c] = v
                     IN  IF piv[c] = 0 THEN slack[c]
                         ELSE Sub(M[piv[c]][K + 1],
                                  SumSeq(Force([l \in 1..K |->
                                      IF l \in loose THEN Mul(M[piv[c]][l], slack[l])
                                      ELSE Zero])))]
    IN  IF inconsistent THEN {[status |-> "Infeasible", x |-> <<>>]}
        ELSE IF \E c \in loose : reduced(c) # Zero
             THEN {[status |-> "Unbounded", x |-> <<>>]}
        ELSE {[status |-> "Optimal", x |-> point(slack)] :
                  slack \in [loose -> SlackChoices]}

----------------------------------------------------------------------------
(* solve_impl                                                              *)

\* variable ids, in the order of the add_var calls
total_mass == 0
total_flour == 1
total_water == 2
total_leavener == 3
total_salt == 4
total_wheat_proteins == 5
\* the id of the k-th ingredient (k from 1)
IngredientVar(k) == 5 + k

\* a variant of SolveVars that puts the flour and wheat-proteins bounds on the
\* neighbouring variables total_water and total_salt
SolveVarsShifted(params) ==
    <<[obj |-> One, bound |-> TargetBound(params.mass)],
      [obj |-> One, bound |-> <<>>],
      [obj |-> One, bound |-> TargetBound(params.flour)],
      [obj |-> One, bound |-> <<>>],
      [obj |-> One, bound |-> TargetBound(params.wheat_proteins)],
      [obj |-> One, bound |-> <<>>]>>
    \o Force([k \in 1..Len(params.ingredients) |->
           [obj |-> Int2R(k), bound |-> TargetBound(params.ingredients[k].target)]])

\* the aggregate variables, then one variable per ingredient with objective
\* weight + 1 and the bound of its target
SolveVars(params) ==
    <<[obj |-> One, bound |-> TargetBound(params.mass)],
      [obj |-> One, bound |-> TargetBound(params.flour)],
      [obj |-> One, bound |-> <<>>],
      [obj |-> One, bound |-> <<>>],
      [obj |-> One, bound |-> <<>>],
      [obj |-> One, bound |-> TargetBound(params.wheat_proteins)]>>
    \o Force([k \in 1..Len(params.ingredients) |->
           [obj |-> Int2R(k), bound |-> TargetBound(params.ingredients[k].target)]])

\* iter().filter_map(|var| keep.then_some((var.id, coef))), with keep[k] and
\* coef[k] what the closure computes for the k-th ingredient
FilterMap(keep, coef) ==
    LET sel == SelectSeq([k \in 1..Len(keep) |-> k], LAMBDA k : keep[k])
    IN  Force([j \in 1..Len(sel) |-> <<IngredientVar(sel[j]), coef[sel[j]]>>])

MinusOne == Neg(One)

\* a variant of TotalMassConstraint that leaves the first ingredient out
TotalMassConstraintSkipFirst(params) ==
    [coeffs |-> <<<<total_mass, MinusOne>>>>
                    \o Force([j \in 1..(Len(params.ingredients) - 1) |->
                           <<IngredientVar(j + 1), One>>]),
     rhs |-> Zero]

TotalMassConstraint(params) ==
    [coeffs |-> <<<<total_mass, MinusOne>>>> \o FilterMap([k \in 1..Len(params.ingredients) |-> TRUE],
                                [k \in 1..Len(params.ingredients) |-> One]),
     rhs |-> Zero]

TotalFlourConstraint(params) ==
    [coeffs |-> <<<<total_flour, MinusOne>>>>
                    \o FilterMap([k \in 1..Len(params.ingredients) |->
                                    has_flour(params.ingredients[k].ingredient)],
                                [k \in 1..Len(params.ingredients) |->
                                    flour_ratio(params.ingredients[k].ingredient)]),
     rhs |-> Zero]

TotalWaterConstraint(params) ==
    [coeffs |-> <<<<total_water, MinusOne>>>>
                    \o FilterMap([k \in 1..Len(params.ingredients) |->
                                    has_water(params.ingredients[k].ingredient)],
                                [k \in 1..Len(params.ingredients) |->
                                    params.ingredients[k].ingredient.water]),
     rhs |-> Zero]

TotalLeavenerConstraint(params) ==
    [coeffs |-> <<<<total_leavener, MinusOne>>>>
                    \o FilterMap([k \in 1..Len(params.ingredients) |->
                                    is_leavener(params.ingredients[k].ingredient)],
                                [k \in 1..Len(params.ingredients) |-> One]),
     rhs |-> Zero]

TotalSaltConstraint(params) ==
    [coeffs |-> <<<<total_salt, MinusOne>>>>
                    \o FilterMap([k \in 1..Len(params.ingredients) |->
                                    has_salt(params.ingredients[k].ingredient)],
                                [k \in 1..Len(params.ingredients) |->
                                    params.ingredients[k].ingredient.salt]),
     rhs |-> Zero]

\* a variant of TotalWheatProteinsConstraint that counts the proteins of every
\* ingredient
TotalWheatProteinsConstraintAll(params) ==
    [coeffs |-> <<<<total_wheat_proteins, MinusOne>>>>
                    \o FilterMap([k \in 1..Len(params.ingredients) |-> TRUE],
                                [k \in 1..Len(params.ingredients) |->
                                    params.ingredients[k].ingredient.proteins]),
     rhs |-> Zero]

TotalWheatProteinsConstraint(params) ==
    [coeffs |-> <<<<total_wheat_proteins, MinusOne>>>>
                    \o FilterMap([k \in 1..Len(params.ingredients) |->
                                    has_flour(params.ingredients[k].ingredient)],
                                [k \in 1..Len(params.ingredients) |->
                                    params.ingredients[k].ingredient.proteins]),
     rhs |-> Zero]

SumConstraints(params) ==
    <<TotalMassConstraint(params),
      TotalFlourConstraint(params),
      TotalWaterConstraint(params),
      TotalLeavenerConstraint(params),
      TotalSaltConstraint(params),
      TotalWheatProteinsConstraint(params)>>

\* a variant of RatioReference that looks at the water content first
RatioReferenceWaterFirst(i) ==
    IF has_water(i) THEN total_water
    ELSE IF is_leavener(i) \/ has_flour(i) THEN total_flour
    ELSE IF has_salt(i) THEN total_salt
    ELSE total_mass

\* the total an ingredient's ratio target is relative to
RatioReference(i) ==
    IF is_leavener(i) \/ has_flour(i) THEN total_flour
    ELSE IF has_water(i) THEN total_water
    ELSE IF has_salt(i) THEN total_salt
    ELSE total_mass

\* a variant of HydratationConstraint that takes the hydratation as the
\* water's share of the total mass
HydratationConstraintOfTotalMass(params) ==
    [coeffs |-> <<<<total_mass, params.hydratation>>, <<total_water, Neg(One)>>>>,
     rhs |-> Zero]

HydratationConstraint(params) ==
    [coeffs |-> <<<<total_flour, params.hydratation>>, <<total_water, Neg(One)>>>>,
     rhs |-> Zero]

\* a variant of SaltRatioConstraint with one gram of salt on top of the ratio
SaltRatioConstraintPinch(params) ==
    [coeffs |-> <<<<total_flour, params.salt_ratio>>, <<total_salt, Neg(One)>>>>,
     rhs |-> Neg(One)]

SaltRatioConstraint(params) ==
    [coeffs |-> <<<<total_flour, params.salt_ratio>>, <<total_salt, Neg(One)>>>>,
     rhs |-> Zero]

\* a variant of WheatProteinsConstraint that adds no constraint for a ratio
\* target
WheatProteinsConstraintNone(params) == <<>>

WheatProteinsConstraint(params) ==
    IF TargetRatio(params.wheat_proteins) # None
    THEN <<[coeffs |-> <<<<total_flour, TargetRatio(params.wheat_proteins)[1]>>,
                         <<total_wheat_proteins, Neg(One)>>>>,
            rhs |-> Zero]>>
    ELSE <<>>

\* a variant of IngredientRatioConstraints that skips the ratio of an
\* ingredient whose mass is fixed
IngredientRatioConstraintsUnlessFixed(params) ==
    LET ings == params.ingredients
        sel == SelectSeq([k \in 1..Len(ings) |-> k],
                         LAMBDA k : /\ TargetRatio(ings[k].target) # None
                                    /\ ings[k].target.mass = None)
    IN  Force([j \in 1..Len(sel) |->
            [coeffs |-> <<<<RatioReference(ings[sel[j]].ingredient),
                            TargetRatio(ings[sel[j]].target)[1]>>,
                          <<IngredientVar(sel[j]), Neg(One)>>>>,
             rhs |-> Zero]])

IngredientRatioConstraints(params) ==
    LET ings == params.ingredients
        sel == SelectSeq([k \in 1..Len(ings) |-> k],
                         LAMBDA k : TargetRatio(ings[k].target) # None)
    IN  Force([j \in 1..Len(sel) |->
            [coeffs |-> <<<<RatioReference(ings[sel[j]].ingredient),
                            TargetRatio(ings[sel[j]].target)[1]>>,
                          <<IngredientVar(sel[j]), Neg(One)>>>>,
             rhs |-> Zero]])

RatioConstraints(params) ==
    <<HydratationConstraint(params), SaltRatioConstraint(params)>>
    \o WheatProteinsConstraint(params)
    \o IngredientRatioConstraints(params)

\* the ellp problem solve_impl hands to the solver
BuildProblem(params) ==
    [vars |-> SolveVars(params),
     constraints |-> SumConstraints(params) \o RatioConstraints(params)]

\* the Dough read from the solver's point
ExtractDough(params, x) ==
    [flour |-> x[total_flour],
     water |-> x[total_water],
     wheat_proteins |-> x[total_wheat_proteins],
     ingredients |-> Force([k \in 1..Len(params.ingredients) |->
                        <<params.ingredients[k].ingredient.id, x[IngredientVar(k)]>>])]

\* debug_assert_f64_eq!: a == b, or b strictly within a -/+ a * 0.001; every
\* comparison with a NaN is false
DebugAssertF64Eq(a, b) ==
    IF ~IsFinite(a) \/ ~IsFinite(b) THEN a = b /\ a # NaN
    ELSE LET epsilon == Mul(a, R(1, 1000))
         IN  a = b \/ (Less(Sub(a, epsilon), b) /\ Less(b, Add(a, epsilon)))

NoDough == [flour |-> Zero, water |-> Zero, wheat_proteins |-> Zero, ingredients |-> <<>>]

\* a variant of SolveOutcome that panics when there is no optimal point, as
\* bread_solve does
SolveOutcomePanicking(params, res, debug) ==
    IF res.status = "Optimal"
    THEN [tag |-> "Found", dough |-> ExtractDough(params, res.x),
          total_mass |-> res.x[total_mass]]
    ELSE [tag |-> "Panic", dough |-> NoDough, total_mass |-> Zero]

\* a variant of SolveOutcome that returns NotFound for a point with a negative
\* ingredient mass
SolveOutcomeNonNegative(params, res, debug) ==
    IF res.status = "Optimal"
           /\ \A k \in 1..Len(params.ingredients) : res.x[IngredientVar(k)][1] >= 0
    THEN [tag |-> "Found", dough |-> ExtractDough(params, res.x),
          total_mass |-> res.x[total_mass]]
    ELSE [tag |-> "NotFound", dough |-> NoDough, total_mass |-> Zero]

\* the outcomes of solve_impl for one solver result; "Panic" is a failed
\* debug assertion, which only a build with debug assertions can raise
SolveOutcome(params, res, debug) ==
    IF res.status = "Optimal"
    THEN LET dough == ExtractDough(params, res.x)
         IN  IF debug /\ ~(/\ DebugAssertF64Eq(DoughTotalMass(dough), res.x[total_mass])
                           /\ DebugAssertF64Eq(DoughHydratation(dough), params.hydratation))
             THEN [tag |-> "Panic", dough |-> NoDough, total_mass |-> Zero]
             ELSE [tag |-> "Found", dough |-> dough, total_mass |-> res.x[total_mass]]
    ELSE [tag |-> "NotFound", dough |-> NoDough, total_mass |-> Zero]

\* solve_impl: the solver's status and what the caller gets, for each result
\* the solver may return
solve_impl(params, debug) ==
    {[status |-> res.status, outcome |-> SolveOutcome(params, res, debug)] :
         res \in DualSimplexSolve(BuildProblem(params))}

----------------------------------------------------------------------------
(* The ingredients and targets the callers draw their arguments from.      *)

MaxIngredients == 3

Ingredient(id, category, kind, proteins, water, salt) ==
    [id |-> id, category |-> category, kind |-> kind,
     proteins |-> proteins, water |-> water, salt |-> salt]

white_flour == Ingredient("white_flour", "Flour", "WhiteFlourUnbleached", R(13, 100), Zero, Zero)
\* water from 50% hydratation, proteins (1 - water) * 0.14
stiff_sourdough_starter ==
    Ingredient("stiff_sourdough_starter", "Leavener", "SourdoughStarter", R(7, 75), R(1, 3), Zero)
tap_water == Ingredient("tap_water", "Liquid", "Water", Zero, One, Zero)
table_salt == Ingredient("table_salt", "Salt", "TableSalt", Zero, Zero, One)
instant_yeast == Ingredient("instant_yeast", "Leavener", "InstantDryYeast", R(2, 5), Zero, Zero)
olive_oil == Ingredient("olive_oil", "Fat", "Oil", Zero, Zero, Zero)
\* a liquid whose salt content is exactly the threshold
milk == Ingredient("milk", "Liquid", "Milk", R(3, 100), R(9, 10), R(1, 1000))

gluten_powder == Ingredient("gluten_powder", "Flour", "GlutenPowder", R(18, 25), Zero, Zero)

Entry(i, t) == [ingredient |-> i, target |-> t]

StarterMass == Int2R(100)
StarterRatio == R(1, 5)

\* what the callers of the builder pass
Pantry ==
    {Entry(white_flour, TargetFree),
     Entry(tap_water, TargetFree)}

MassTargets == {TargetFree, TargetByMass(Int2R(1000))}
FlourTargets == {TargetFree, TargetByMass(Int2R(400))}
WheatProteinsTargets == {TargetFree, TargetByRatio(R(3, 20)), TargetByMass(Int2R(60))}
Hydratations == {R(7, 10), R(3, 4)}
SaltRatios == {R(1, 50), Zero}

\* what the problems handed to solve are made of
SolvePantry ==
    {Entry(white_flour, TargetFree),
     Entry(tap_water, TargetFree),
     Entry(milk, TargetFree),
     Entry(stiff_sourdough_starter, [mass |-> Some(StarterMass), ratio |-> Some(StarterRatio)]),
     Entry(instant_yeast, TargetByRatio(R(1, 100))),
     Entry(olive_oil, TargetByRatio(R(1, 20))),
     Entry(tap_water, TargetByRatio(R(1, 2))),
     Entry(table_salt, TargetByRatio(One))}

Scenario(m, f, wp, h, s) ==
    [mass |-> m, flour |-> f, wheat_proteins |-> wp, hydratation |-> h, salt_ratio |-> s]

Scenarios ==
    {Scenario(TargetFree, TargetFree, TargetFree, R(3, 4), Zero),
     Scenario(TargetByMass(Int2R(1000)), TargetFree, TargetFree, R(3, 4), Zero),
     Scenario(TargetByMass(Int2R(1000)), TargetFree, TargetFree, R(3, 4), R(1, 50)),
     Scenario(TargetFree, TargetByMass(Int2R(400)), TargetFree, R(3, 4), Zero),
     Scenario(TargetFree, TargetFree, TargetByMass(Int2R(60)), R(3, 4), Zero)}

----------------------------------------------------------------------------
(* DoughProblem and its builder                                            *)

Params ==
    [mass |-> mass, flour |-> flour, wheat_proteins |-> wheat_proteins,
     hydratation |-> hydratation, salt_ratio |-> salt_ratio, ingredients |-> ingredients]

NotSolved == [tag |-> "None", dough |-> NoDough, total_mass |-> Zero]

\* DoughProblem::default()
Init ==
    /\ mass = TargetFree
    /\ flour = TargetFree
    /\ wheat_proteins = TargetFree
    /\ hydratation = R(7, 10)
    /\ salt_ratio = R(1, 50)
    /\ ingredients = <<>>
    /\ returned = <<>>
    /\ debug_assertions \in BOOLEAN
    /\ pc = "building"
    /\ result = "None"
    /\ solution = NotSolved
    /\ history = <<>>
    /\ value = Zero
    /\ calls = <<>>
    /\ tree = <<>>
    /\ requests = <<>>

SetMass(t) ==
    /\ pc = "building"
    /\ mass' = t
    /\ UNCHANGED <<flour, wheat_proteins, hydratation, salt_ratio, ingredients,
                   returned, debug_assertions, pc, result, solution,
                   history, value, calls, tree, requests>>

\* a variant of SetFlour that starts over from a free total mass
SetFlourFreeingMass(t) ==
    /\ pc = "building"
    /\ flour' = t
    /\ mass' = TargetFree
    /\ UNCHANGED <<wheat_proteins, hydratation, salt_ratio, ingredients,
                   returned, debug_assertions, pc, result, solution,
                   history, value, calls, tree, requests>>

SetFlour(t) ==
    /\ pc = "building"
    /\ flour' = t
    /\ UNCHANGED <<mass, wheat_proteins, hydratation, salt_ratio, ingredients,
                   returned, debug_assertions, pc, result, solution,
                   history, value, calls, tree, requests>>

SetWheatProteins(t) ==
    /\ pc = "building"
    /\ wheat_proteins' = t
    /\ UNCHANGED <<mass, flour, hydratation, salt_ratio, ingredients,
                   returned, debug_assertions, pc, result, solution,
                   history, value, calls, tree, requests>>

SetHydratation(h) ==
    /\ pc = "building"
    /\ hydratation' = h
    /\ UNCHANGED <<mass, flour, wheat_proteins, salt_ratio, ingredients,
                   returned, debug_assertions, pc, result, solution,
                   history, value, calls, tree, requests>>

SetSaltRatio(r) ==
    /\ pc = "building"
    /\ salt_ratio' = r
    /\ UNCHANGED <<mass, flour, wheat_proteins, hydratation, ingredients,
                   returned, debug_assertions, pc, result, solution,
                   history, value, calls, tree, requests>>

\* DoughProblem::ingredient: push, nothing returned but the problem
PushIngredient(e) ==
    /\ pc = "building"
    /\ Len(ingredients) < MaxIngredients
    /\ ingredients' = Append(ingredients, e)
    /\ returned' = Append(returned, None)
    /\ UNCHANGED <<mass, flour, wheat_proteins, hydratation, salt_ratio,
                   debug_assertions, pc, result, solution,
                   history, value, calls, tree, requests>>

\* a variant of AddIngredient that reads the length after the push
AddIngredientLenAfter(e) ==
    /\ pc = "building"
    /\ Len(ingredients) < MaxIngredients
    /\ ingredients' = Append(ingredients, e)
    /\ returned' = Append(returned, Some(Len(ingredients')))
    /\ UNCHANGED <<mass, flour, wheat_proteins, hydratation, salt_ratio,
                   debug_assertions, pc, result, solution,
                   history, value, calls, tree, requests>>

\* DoughProblem::add_ingredient: push, the index before the push returned
AddIngredient(e) ==
    /\ pc = "building"
    /\ Len(ingredients) < MaxIngredients
    /\ LET idx == Len(ingredients)
       IN  /\ ingredients' = Append(ingredients, e)
           /\ returned' = Append(returned, Some(idx))
    /\ UNCHANGED <<mass, flour, wheat_proteins, hydratation, salt_ratio,
                   debug_assertions, pc, result, solution,
                   history, value, calls, tree, requests>>

\* a variant of Solve that takes the ingredients out of the problem it solves
SolveDraining ==
    /\ pc = "building"
    /\ \E r \in solve_impl(Params, debug_assertions) :
           /\ result' = r.status
           /\ solution' = r.outcome
           /\ history' = Append(history, [problem |-> Params, outcome |-> r.outcome])
           /\ pc' = IF r.outcome.tag = "Panic" THEN "panicked" ELSE "solved"
    /\ ingredients' = <<>>
    /\ UNCHANGED <<mass, flour, wheat_proteins, hydratation, salt_ratio,
                   returned, debug_assertions, value, calls, tree, requests>>

\* DoughProblem::solve; solve borrows the problem and leaves it as it is, and a
\* run of the model ends with its first solve
Solve ==
    /\ pc = "building"
    /\ \E r \in solve_impl(Params, debug_assertions) :
           /\ result' = r.status
           /\ solution' = r.outcome
           /\ history' = Append(history, [problem |-> Params, outcome |-> r.outcome])
           /\ pc' = IF r.outcome.tag = "Panic" THEN "panicked" ELSE "solved"
    /\ UNCHANGED <<mass, flour, wheat_proteins, hydratation, salt_ratio, ingredients,
                   returned, debug_assertions, value, calls, tree, requests>>

Mass == \E t \in MassTargets : SetMass(t)
Flour == \E t \in FlourTargets : SetFlour(t)
WheatProteins == \E t \in WheatProteinsTargets : SetWheatProteins(t)
Hydratation == \E h \in Hydratations : SetHydratation(h)
SaltRatio == \E r \in SaltRatios : SetSaltRatio(r)

Next ==
    \/ Mass
    \/ Flour
    \/ WheatProteins
    \/ Hydratation
    \/ SaltRatio
    \/ \E e \in Pantry : PushIngredient(e)
    \/ \E e \in Pantry : AddIngredient(e)
    \/ Solve

Spec == Init /\ [][Next]_vars

\* solve applied to problems built by add_ingredient from each scenario
InitSolve ==
    /\ \E sc \in Scenarios :
           /\ mass = sc.mass
           /\ flour = sc.flour
           /\ wheat_proteins = sc.wheat_proteins
           /\ hydratation = sc.hydratation
           /\ salt_ratio = sc.salt_ratio
    /\ ingredients = <<>>
    /\ returned = <<>>
    /\ debug_assertions \in BOOLEAN
    /\ pc = "building"
    /\ result = "None"
    /\ solution = NotSolved
    /\ history = <<>>
    /\ value = Zero
    /\ calls = <<>>
    /\ tree = <<>>
    /\ requests = <<>>

NextSolve ==
    \/ \E e \in SolvePantry : AddIngredient(e)
    \/ Solve

SpecSolve == InitSolve /\ [][NextSolve]_vars

\* the recipes of the callers: a DoughProblem written in one builder chain
Recipe(m, wp, h, s, ings) ==
    [mass |-> m, flour |-> TargetFree, wheat_proteins |-> wp,
     hydratation |-> h, salt_ratio |-> s, ingredients |-> ings]

\* white flour, a stiff starter with target st, water and salt
StarterRecipe(m, h, st) ==
    Recipe(m, TargetFree, h, R(1, 50),
           <<Entry(white_flour, TargetFree),
             Entry(stiff_sourdough_starter, st),
             Entry(tap_water, TargetFree),
             Entry(table_salt, TargetFree)>>)

\* tests::solve_by_starter_mass
ByStarterMass ==
    StarterRecipe(TargetFree, R(3, 4), [mass |-> Some(StarterMass), ratio |-> Some(StarterRatio)])

\* the same recipe for a starter twice as heavy
ByTwiceStarterMass ==
    StarterRecipe(TargetFree, R(3, 4),
                  [mass |-> Some(Mul(Int2R(2), StarterMass)), ratio |-> Some(StarterRatio)])

\* tests::solve_by_flour_content, for each flour content
ByFlourContent ==
    {[StarterRecipe(TargetFree, R(3, 4), TargetByRatio(StarterRatio))
         EXCEPT !.flour = TargetByMass(m)] : m \in {Int2R(400), Int2R(800)}}

RecipeMasses == {Zero, Int2R(500), Int2R(1000)}
RecipeHydratations == {R(3, 4)}
StarterRatios == {R(1, 10), StarterRatio, R(3, 10)}

\* tests::solve_by_total_mass, for each mass, hydratation and starter ratio
ByTotalMass ==
    {StarterRecipe(TargetByMass(m), h, TargetByRatio(r)) :
         m \in RecipeMasses, h \in RecipeHydratations, r \in StarterRatios}

\* tests::solve_by_wheat_proteins
ByWheatProteins ==
    Recipe(TargetByMass(Int2R(750)), TargetByRatio(R(3, 20)), R(17, 20), R(1, 50),
           <<Entry(white_flour, TargetFree),
             Entry(gluten_powder, TargetFree),
             Entry(stiff_sourdough_starter, TargetByRatio(StarterRatio)),
             Entry(tap_water, TargetFree),
             Entry(table_salt, TargetFree)>>)

PinnedTotal == Int2R(100)
PinnedIngredient == Int2R(200)

\* the four ingredients, the k-th one fixed at PinnedIngredient
PinnedList(k) ==
    LET is == <<white_flour, stiff_sourdough_starter, tap_water, table_salt>>
    IN  Force([j \in 1..4 |->
            Entry(is[j], IF j = k THEN TargetByMass(PinnedIngredient) ELSE TargetFree)])

\* a total mass fixed below the fixed mass of one ingredient
Pinned ==
    {Recipe(TargetByMass(PinnedTotal), TargetFree, R(7, 10), R(1, 50), PinnedList(k)) :
         k \in 1..4}
    \cup {Recipe(TargetByMass(PinnedTotal), TargetFree, R(7, 10), R(1, 50),
                 <<Entry(white_flour, TargetByMass(PinnedIngredient)),
                   Entry(tap_water, TargetFree),
                   Entry(table_salt, TargetFree)>>)}

\* no fixed mass anywhere
NoFixedMass ==
    {Recipe(TargetFree, TargetFree, R(7, 10), R(1, 50), <<>>),
     StarterRecipe(TargetFree, R(3, 4), TargetByRatio(StarterRatio))}

\* the flour fixed at 100 g, and a starter or a liquid of a fixed mass whose
\* water alone is above hydratation * flour
TooWet ==
    {[Recipe(TargetFree, TargetFree, R(3, 4), R(1, 50),
             <<Entry(white_flour, TargetFree),
               Entry(e[1], TargetByMass(e[2])),
               Entry(tap_water, TargetFree),
               Entry(table_salt, TargetFree)>>)
         EXCEPT !.flour = TargetByMass(Int2R(100))] :
         e \in {<<stiff_sourdough_starter, Int2R(300)>>, <<milk, Int2R(200)>>}}

\* two free flours and nothing that ties one to the other
TwoFlours ==
    Recipe(TargetByMass(Int2R(1000)), TargetFree, R(3, 4), R(1, 50),
           <<Entry(white_flour, TargetFree),
             Entry(gluten_powder, TargetFree),
             Entry(tap_water, TargetFree),
             Entry(table_salt, TargetFree)>>)

RecipeProblems ==
    {ByStarterMass, ByTwiceStarterMass, ByWheatProteins, TwoFlours}
        \cup ByTotalMass \cup ByFlourContent \cup Pinned \cup NoFixedMass \cup TooWet

MaxSolves == 2

InitRecipe ==
    /\ \E p \in RecipeProblems :
           /\ mass = p.mass
           /\ flour = p.flour
           /\ wheat_proteins = p.wheat_proteins
           /\ hydratation = p.hydratation
           /\ salt_ratio = p.salt_ratio
           /\ ingredients = p.ingredients
           /\ returned = Force([k \in 1..Len(p.ingredients) |-> None])
    /\ debug_assertions \in BOOLEAN
    /\ pc = "building"
    /\ result = "None"
    /\ solution = NotSolved
    /\ history = <<>>
    /\ value = Zero
    /\ calls = <<>>
    /\ tree = <<>>
    /\ requests = <<>>

\* a caller writes its next DoughProblem once the previous solve has returned
Build(p) ==
    /\ pc = "solved"
    /\ Len(history) < MaxSolves
    /\ mass' = p.mass
    /\ flour' = p.flour
    /\ wheat_proteins' = p.wheat_proteins
    /\ hydratation' = p.hydratation
    /\ salt_ratio' = p.salt_ratio
    /\ ingredients' = p.ingredients
    /\ returned' = Force([k \in 1..Len(p.ingredients) |-> None])
    /\ pc' = "building"
    /\ result' = "None"
    /\ solution' = NotSolved
    /\ UNCHANGED <<debug_assertions, history, value, calls, tree, requests>>

NextRecipe ==
    \/ \E p \in RecipeProblems : Build(p)
    \/ Solve

SpecRecipe == InitRecipe /\ [][NextRecipe]_vars

\* the two conversions applied to the f64 a caller holds, the result of one
\* call being the argument of the next
MaxNumerator == 12
MaxDenominator == 6
MaxCalls == 2

ConversionInputs ==
    {R(n, d) : n \in (-3)..MaxNumerator, d \in 1..MaxDenominator}
        \cup {NaN, Inf, NegInf, Huge}

InitConvert ==
    /\ mass = TargetFree
    /\ flour = TargetFree
    /\ wheat_proteins = TargetFree
    /\ hydratation = R(7, 10)
    /\ salt_ratio = R(1, 50)
    /\ ingredients = <<>>
    /\ returned = <<>>
    /\ debug_assertions \in BOOLEAN
    /\ pc = "converting"
    /\ result = "None"
    /\ solution = NotSolved
    /\ history = <<>>
    /\ value \in ConversionInputs
    /\ calls = <<>>
    /\ tree = <<>>
    /\ requests = <<>>

Call(fn, ret) ==
    /\ calls' = Append(calls, [fn |-> fn, arg |-> value, ret |-> ret])
    /\ value' = IF ret.tag = "Ok" THEN ret.value ELSE value
    /\ pc' = IF ret.tag = "Ok" THEN pc ELSE "panicked"
    /\ UNCHANGED <<mass, flour, wheat_proteins, hydratation, salt_ratio, ingredients,
                   returned, debug_assertions, result, solution, history, tree, requests>>

HydratationToWaterRatio ==
    /\ pc = "converting"
    /\ Len(calls) < MaxCalls
    /\ Call("hydratation_to_water_ratio",
            hydratation_to_water_ratio(value, debug_assertions))

WaterRatioToHydratation ==
    /\ pc = "converting"
    /\ Len(calls) < MaxCalls
    /\ Call("water_ratio_to_hydratation",
            water_ratio_to_hydratation(value, debug_assertions))

NextConvert ==
    \/ HydratationToWaterRatio
    \/ WaterRatioToHydratation

SpecConvert == InitConvert /\ [][NextConvert]_vars

\* bread_solve, the earlier solver of the application: its variables in the
\* order of the add_var calls
bread_total_weight == 0
bread_total_flour == 1
bread_added_flour == 2
bread_total_water == 3
bread_added_water == 4
bread_total_starter == 5
bread_starter_water == 6
bread_starter_flour == 7
bread_added_salt == 8

TargetBread(kind, m) == [kind |-> kind, mass |-> m]

total_weight_bound(t) == IF t.kind = "TotalWeight" THEN <<t.mass>> ELSE <<>>
flour_bound(t) == IF t.kind = "Flour" THEN <<t.mass>> ELSE <<>>
starter_bound(t) == IF t.kind = "Starter" THEN <<t.mass>> ELSE <<>>

BreadVars(target) ==
    <<[obj |-> One, bound |-> total_weight_bound(target)],
      [obj |-> One, bound |-> flour_bound(target)],
      [obj |-> One, bound |-> <<>>],
      [obj |-> One, bound |-> <<>>],
      [obj |-> One, bound |-> <<>>],
      [obj |-> One, bound |-> starter_bound(target)],
      [obj |-> One, bound |-> <<>>],
      [obj |-> One, bound |-> <<>>],
      [obj |-> One, bound |-> <<>>]>>

BreadSumConstraints ==
    <<[coeffs |-> <<<<bread_total_weight, One>>, <<bread_total_flour, MinusOne>>,
                    <<bread_total_water, MinusOne>>, <<bread_added_salt, MinusOne>>>>,
       rhs |-> Zero],
      [coeffs |-> <<<<bread_total_flour, One>>, <<bread_added_flour, MinusOne>>,
                    <<bread_starter_flour, MinusOne>>>>,
       rhs |-> Zero],
      [coeffs |-> <<<<bread_total_water, One>>, <<bread_added_water, MinusOne>>,
                    <<bread_starter_water, MinusOne>>>>,
       rhs |-> Zero],
      [coeffs |-> <<<<bread_total_starter, One>>, <<bread_starter_water, MinusOne>>,
                    <<bread_starter_flour, MinusOne>>>>,
       rhs |-> Zero]>>

BreadRatioConstraints(total_hydratation, starter_hydratation, starter_ratio) ==
    <<[coeffs |-> <<<<bread_total_flour, total_hydratation>>, <<bread_total_water, MinusOne>>>>,
       rhs |-> Zero],
      [coeffs |-> <<<<bread_total_flour, starter_ratio>>, <<bread_total_starter, MinusOne>>>>,
       rhs |-> Zero],
      [coeffs |-> <<<<bread_starter_flour, starter_hydratation>>,
                    <<bread_starter_water, MinusOne>>>>,
       rhs |-> Zero],
      [coeffs |-> <<<<bread_total_flour, R(1, 50)>>, <<bread_added_salt, MinusOne>>>>,
       rhs |-> Zero]>>

BreadProblem(a) ==
    [vars |-> BreadVars(a.target),
     constraints |-> BreadSumConstraints
         \o BreadRatioConstraints(a.total_hydratation, a.starter_hydratation, a.starter_ratio)]

NoBread ==
    [total_weight |-> Zero, total_flour |-> Zero, added_flour |-> Zero, total_water |-> Zero,
     added_water |-> Zero, total_starter |-> Zero, added_salt |-> Zero]

\* the Bread read from the solver's point, or the panic without one
BreadOutcome(res) ==
    IF res.status = "Optimal"
    THEN [tag |-> "Bread",
          bread |-> [total_weight |-> res.x[bread_total_weight],
                     total_flour |-> res.x[bread_total_flour],
                     added_flour |-> res.x[bread_added_flour],
                     total_water |-> res.x[bread_total_water],
                     added_water |-> res.x[bread_added_water],
                     total_starter |-> res.x[bread_total_starter],
                     added_salt |-> res.x[bread_added_salt]]]
    ELSE [tag |-> "Panic", bread |-> NoBread]

bread_solve(a) == {BreadOutcome(res) : res \in DualSimplexSolve(BreadProblem(a))}

\* the arguments of bread_solve
BreadArguments ==
    {[target |-> TargetBread(k, m), total_hydratation |-> R(3, 4),
      starter_hydratation |-> sh, starter_ratio |-> sr] :
         k \in {"TotalWeight", "Flour", "Starter"}, m \in {Zero, Int2R(100), Int2R(400)},
         sh \in {R(1, 2), One}, sr \in {Zero, R(1, 5)}}

\* the starter fixture for a hydratation
SourdoughStarter(starter_hydratation) ==
    LET water == hydratation_to_water_ratio(starter_hydratation, FALSE).value
    IN  Ingredient("sourdough_starter", "Leavener", "SourdoughStarter",
                   Mul(Sub(One, water), R(7, 50)), water, Zero)

\* the DoughProblem for the arguments of bread_solve, as the solve_by_ tests
\* write it: the starter at starter_ratio, and its mass, the total mass or
\* the flour fixed
BreadRecipe(a) ==
    LET fixed(k) == IF a.target.kind = k THEN Some(a.target.mass) ELSE None
    IN  [mass |-> [mass |-> fixed("TotalWeight"), ratio |-> None],
         flour |-> [mass |-> fixed("Flour"), ratio |-> None],
         wheat_proteins |-> TargetFree,
         hydratation |-> a.total_hydratation,
         salt_ratio |-> R(1, 50),
         ingredients |->
             <<Entry(white_flour, TargetFree),
               Entry(SourdoughStarter(a.starter_hydratation),
                     [mass |-> fixed("Starter"), ratio |-> Some(a.starter_ratio)]),
               Entry(tap_water, TargetFree),
               Entry(table_salt, TargetFree)>>]

InitBread ==
    /\ value \in BreadArguments
    /\ mass = BreadRecipe(value).mass
    /\ flour = BreadRecipe(value).flour
    /\ wheat_proteins = BreadRecipe(value).wheat_proteins
    /\ hydratation = BreadRecipe(value).hydratation
    /\ salt_ratio = BreadRecipe(value).salt_ratio
    /\ ingredients = BreadRecipe(value).ingredients
    /\ returned = <<None, None, None, None>>
    /\ debug_assertions \in BOOLEAN
    /\ pc = "building"
    /\ result = "None"
    /\ solution = NotSolved
    /\ history = <<>>
    /\ calls = <<>>
    /\ tree = <<>>
    /\ requests = <<>>

\* the application calls bread_solve with the arguments of the form
BreadSolve ==
    /\ Len(calls) < MaxCalls
    /\ \E b \in bread_solve(value) :
           calls' = Append(calls, [fn |-> "bread_solve", arg |-> value, ret |-> b])
    /\ UNCHANGED <<mass, flour, wheat_proteins, hydratation, salt_ratio, ingredients,
                   returned, debug_assertions, pc, result, solution, history, value, tree, requests>>

NextBread ==
    \/ BreadSolve
    \/ Solve

SpecBread == InitBread /\ [][NextBread]_vars

\* the ingredients service: the sled tree "ingredients", keyed by the id of
\* the ingredient, and the requests the handlers are serving, each on its own
\* task of the multi-threaded runtime.  A step is one operation on the tree.
MaxRequests == 2

Ulids == {"01A", "01B"}

\* the ingredients a client may post under an id
Posted(id) ==
    {Ingredient(id, "Flour", k, Zero, Zero, Zero) : k \in {"DarkRyeFlour", "WholeWheatFlour"}}

ListQueries == {<<"01A">>, <<"01A", "01B">>, <<"01B", "01A">>}

\* bincode::serialize and bincode::deserialize
Serialize(i) == <<"bincode", i>>
Deserialize(v) == v[2]

\* sled::Tree::contains_key, get, insert and remove, each atomic
ContainsKey(t, key) == key \in DOMAIN t
TreeGet(t, key) == IF key \in DOMAIN t THEN Some(t[key]) ELSE None
TreeInsert(t, key, v) == [x \in DOMAIN t \cup {key} |-> IF x = key THEN v ELSE t[x]]
TreeRemove(t, key) == [x \in DOMAIN t \ {key} |-> t[x]]


\* a request: its handler, its body or query, where its task stands, what
\* its iterator has yielded so far, and its response
Request(handler, body, at) ==
    [pc |-> at, body |-> body, handler |-> handler, acc |-> <<>>,
     response |-> [status |-> "None", body |-> <<>>]]

Respond(r, status, body) ==
    requests' = [requests EXCEPT ![r].pc = "done", ![r].response = [status |-> status, body |-> body]]

Receive(req) ==
    /\ pc = "serving"
    /\ Len(requests) < MaxRequests
    /\ requests' = Append(requests, req)
    /\ UNCHANGED <<mass, flour, wheat_proteins, hydratation, salt_ratio, ingredients,
                   returned, debug_assertions, pc, result, solution, history,
                   value, calls, tree>>

\* post_ingredient up to its early return: tree.contains_key(&key)
PostContainsKey(r) ==
    /\ requests[r].handler = "post_ingredient"
    /\ requests[r].pc = "contains_key"
    /\ IF ContainsKey(tree, requests[r].body.id)
       THEN Respond(r, "Conflict", <<>>)
       ELSE requests' = [requests EXCEPT ![r].pc = "insert"]
    /\ UNCHANGED <<mass, flour, wheat_proteins, hydratation, salt_ratio, ingredients,
                   returned, debug_assertions, pc, result, solution, history,
                   value, calls, tree>>

\* post_ingredient from tree.insert(key, value) on
PostInsert(r) ==
    /\ requests[r].handler = "post_ingredient"
    /\ requests[r].pc = "insert"
    /\ tree' = TreeInsert(tree, requests[r].body.id, Serialize(requests[r].body))
    /\ Respond(r, "Ok", <<>>)
    /\ UNCHANGED <<mass, flour, wheat_proteins, hydratation, salt_ratio, ingredients,
                   returned, debug_assertions, pc, result, solution, history,
                   value, calls>>

\* get_ingredients: the next id of the query, or the collected list at its end
GetNext(r) ==
    /\ requests[r].handler = "get_ingredients"
    /\ requests[r].pc = "iterating"
    /\ LET k == Len(requests[r].acc) + 1
       IN  IF k > Len(requests[r].body)
           THEN Respond(r, "Ok", requests[r].acc)
           ELSE LET val == TreeGet(tree, requests[r].body[k])
                IN  IF val = None
                    THEN Respond(r, "NotFound", <<>>)
                    ELSE requests' = [requests EXCEPT
                             ![r].acc = Append(@, Deserialize(val[1]))]
    /\ UNCHANGED <<mass, flour, wheat_proteins, hydratation, salt_ratio, ingredients,
                   returned, debug_assertions, pc, result, solution, history,
                   value, calls, tree>>

\* delete_ingredients: tree.remove of the next id of the query, or the
\* collected list at its end
DeleteNext(r) ==
    /\ requests[r].handler = "delete_ingredients"
    /\ requests[r].pc = "iterating"
    /\ LET k == Len(requests[r].acc) + 1
       IN  IF k > Len(requests[r].body)
           THEN /\ Respond(r, "Ok", requests[r].acc)
                /\ tree' = tree
           ELSE LET val == TreeGet(tree, requests[r].body[k])
                IN  IF val = None
                    THEN /\ Respond(r, "NotFound", <<>>)
                         /\ tree' = tree
                    ELSE /\ tree' = TreeRemove(tree, requests[r].body[k])
                         /\ requests' = [requests EXCEPT
                                ![r].acc = Append(@, Deserialize(val[1]))]
    /\ UNCHANGED <<mass, flour, wheat_proteins, hydratation, salt_ratio, ingredients,
                   returned, debug_assertions, pc, result, solution, history,
                   value, calls>>

\* what the tree holds when the service starts
StoredAtStart ==
    {<<>>} \cup {TreeInsert(<<>>, i.id, Serialize(i)) : i \in Posted("01A")}
        \cup {[id \in Ulids |-> Serialize(Ingredient(id, "Flour", "DarkRyeFlour", Zero, Zero, Zero))]}

InitApi ==
    /\ mass = TargetFree
    /\ flour = TargetFree
    /\ wheat_proteins = TargetFree
    /\ hydratation = R(7, 10)
    /\ salt_ratio = R(1, 50)
    /\ ingredients = <<>>
    /\ returned = <<>>
    /\ debug_assertions \in BOOLEAN
    /\ pc = "serving"
    /\ result = "None"
    /\ solution = NotSolved
    /\ history = <<>>
    /\ value = Zero
    /\ calls = <<>>
    /\ tree \in StoredAtStart
    /\ requests = <<>>

PostIngredient == \E id \in Ulids : \E i \in Posted(id) :
    Receive(Request("post_ingredient", i, "contains_key"))
GetIngredients == \E q \in ListQueries : Receive(Request("get_ingredients", q, "iterating"))
DeleteIngredients == \E q \in ListQueries : Receive(Request("delete_ingredients", q, "iterating"))

NextApi ==
    \/ PostIngredient
    \/ GetIngredients
    \/ DeleteIngredients
    \/ \E r \in 1..Len(requests) : PostContainsKey(r)
    \/ \E r \in 1..Len(requests) : PostInsert(r)
    \/ \E r \in 1..Len(requests) : GetNext(r)
    \/ \E r \in 1..Len(requests) : DeleteNext(r)

SpecApi == InitApi /\ [][NextApi]_vars

\* the role predicates asked of the ingredient a caller holds
MaxThousandths == 2

RoleRatios == {R(n, 1000) : n \in 0..MaxThousandths} \cup {R(1, 3), One}

RoleInputs ==
    {Ingredient("ingredient", c, k, Zero, w, sl) :
         c \in {"Flour", "Leavener", "Liquid", "Mixed"},
         k \in {"WhiteFlourUnbleached", "SourdoughStarter", "Other"},
         w \in RoleRatios, sl \in RoleRatios}

InitRoles ==
    /\ mass = TargetFree
    /\ flour = TargetFree
    /\ wheat_proteins = TargetFree
    /\ hydratation = R(7, 10)
    /\ salt_ratio = R(1, 50)
    /\ ingredients = <<>>
    /\ returned = <<>>
    /\ debug_assertions \in BOOLEAN
    /\ pc = "asking"
    /\ result = "None"
    /\ solution = NotSolved
    /\ history = <<>>
    /\ value \in RoleInputs
    /\ calls = <<>>
    /\ tree = <<>>
    /\ requests = <<>>

\* a method of &self: the answer is returned, the ingredient is as it was
Ask(fn, ret) ==
    /\ pc = "asking"
    /\ Len(calls) < MaxCalls
    /\ calls' = Append(calls, [fn |-> fn, arg |-> value, ret |-> ret])
    /\ UNCHANGED <<mass, flour, wheat_proteins, hydratation, salt_ratio, ingredients,
                   returned, debug_assertions, pc, result, solution, history, value, tree, requests>>

HasFlour == Ask("has_flour", has_flour(value))
FlourRatio == Ask("flour_ratio", flour_ratio(value))
HasWater == Ask("has_water", has_water(value))
HasSalt == Ask("has_salt", has_salt(value))
IsLeavener == Ask("is_leavener", is_leavener(value))

NextRoles ==
    \/ HasFlour
    \/ FlourRatio
    \/ HasWater
    \/ HasSalt
    \/ IsLeavener

SpecRoles == InitRoles /\ [][NextRoles]_vars

----------------------------------------------------------------------------
(* Properties                                                              *)

Found == pc = "solved" /\ solution.tag = "Found"

Dough == solution.dough

N == Len(ingredients)

MassOf(k) == solution.dough.ingredients[k][2]

\* b is within 0.1% of a (relative to a)
Close(a, b) ==
    /\ IsFinite(a)
    /\ IsFinite(b)
    /\ \/ a = b
       \/ LET d == Sub(a, b)
              tol == Mul(<<Abs(a[1]), a[2]>>, R(1, 1000))
          IN  Less(<<Abs(d[1]), d[2]>>, tol)

\* the salt the ingredients bring, counting those above 0.001 of salt only
SaltBrought ==
    SumSeq(Force([k \in 1..N |->
        IF ingredients[k].ingredient.salt[1] * 1000 > ingredients[k].ingredient.salt[2]
        THEN Mul(MassOf(k), ingredients[k].ingredient.salt)
        ELSE Zero]))

\* the reference of a ratio target, from the ingredient's composition
ReferenceMass(i) ==
    IF i.category \in {"Leavener", "Flour"} \/ i.kind = "SourdoughStarter" THEN Dough.flour
    ELSE IF i.water[1] * 1000 > i.water[2] THEN Dough.water
    ELSE IF i.salt[1] * 1000 > i.salt[2] THEN SaltBrought
    ELSE DoughTotalMass(Dough)

HasBoth(k) == ingredients[k].target.mass # None /\ ingredients[k].target.ratio # None

\* C1: when the solver reports the problem infeasible or unbounded, solve
\* returns NotFound with no dough, and does not panic.
C1_NotFoundOnFailure ==
    (pc # "building" /\ result \in {"Infeasible", "Unbounded"})
        => (pc = "solved" /\ solution.tag = "NotFound" /\ solution.dough = NoDough)

C1_Witness == pc = "solved" /\ result = "Infeasible" /\ N >= 2 /\ solution.tag = "NotFound"

C1_WitnessUnbounded == pc = "solved" /\ result = "Unbounded" /\ solution.tag = "NotFound"

\* C2: in every Found dough, water / flour is within 0.1% of the problem's
\* hydratation.
C2_FoundHydratation ==
    Found => Close(DoughHydratation(Dough), hydratation)

\* what holds of every Found dough instead: water = hydratation * flour
C2_WaterIsHydratationTimesFlour ==
    Found => Dough.water = Mul(hydratation, Dough.flour)

\* C3: in every Found dough, total_mass() is the sum of the ingredient masses,
\* equal to the solved total_mass variable, and to the fixed mass target when
\* there is one.
C3_TotalMass ==
    Found =>
        /\ DoughTotalMass(Dough) = solution.total_mass
        /\ mass.mass # None => Close(DoughTotalMass(Dough), mass.mass[1])

C3_Witness == Found /\ mass.mass # None /\ N >= 2 /\ DoughTotalMass(Dough) # Zero

\* C4: in every Found dough, the salt brought by the ingredients whose salt
\* ratio is above 0.001 equals salt_ratio * flour.
C4_TotalSalt ==
    Found => Close(SaltBrought, Mul(salt_ratio, Dough.flour))

C4_Witness == Found /\ salt_ratio # Zero /\ SaltBrought # Zero

\* C5: in every Found dough, an ingredient with a ratio target r has mass
\* r * reference, the reference being total flour for a leavener or an
\* ingredient with flour, else total water if it has water, else total salt
\* if it has salt, else the total mass.
C5_RatioReference ==
    Found =>
        \A k \in 1..N :
            ingredients[k].target.ratio # None =>
                MassOf(k) = Mul(ingredients[k].target.ratio[1],
                                ReferenceMass(ingredients[k].ingredient))

C5_Witness ==
    /\ Found
    /\ \E k \in 1..N :
           /\ ingredients[k].target.ratio # None
           /\ ingredients[k].ingredient.category = "Leavener"
           /\ ingredients[k].ingredient.water # Zero
           /\ MassOf(k) # Zero
           /\ Dough.water # Dough.flour

\* C6: in every Found dough an ingredient whose target has a fixed mass m
\* weighs exactly m, and the variable of an ingredient with Target::free() is
\* Free.
C6_FixedMass ==
    /\ Found =>
           \A k \in 1..N :
               ingredients[k].target.mass # None
                   => MassOf(k) = ingredients[k].target.mass[1]
    /\ \A k \in 1..N :
           ingredients[k].target = TargetFree
               => BuildProblem(Params).vars[IngredientVar(k) + 1].bound = <<>>

C6_Witness ==
    /\ Found
    /\ \E k \in 1..N : ingredients[k].target.mass # None
    /\ \E k \in 1..N : ingredients[k].target = TargetFree /\ MassOf(k) # Zero

\* C7: a problem with a target carrying both a mass and a ratio is solved, not
\* rejected: the outcome is Found or NotFound, and a Found dough satisfies the
\* mass and the ratio together.
C7_MassAndRatio ==
    (pc # "building" /\ \E k \in 1..N : HasBoth(k)) =>
        /\ pc = "solved"
        /\ solution.tag \in {"Found", "NotFound"}
        /\ solution.tag = "Found" =>
               \A k \in 1..N :
                   HasBoth(k) =>
                       /\ MassOf(k) = ingredients[k].target.mass[1]
                       /\ MassOf(k) = Mul(ingredients[k].target.ratio[1],
                                          ReferenceMass(ingredients[k].ingredient))

C7_Witness == Found /\ \E k \in 1..N : HasBoth(k)

C7_WitnessContradiction ==
    pc = "solved" /\ solution.tag = "NotFound" /\ result = "Infeasible"
    /\ \E k \in 1..N : HasBoth(k)

\* C8: a fixed flour mass is the Found dough's flour, a fixed wheat-proteins
\* mass is its wheat proteins, and total_water, total_leavener and total_salt
\* are Free whatever the targets.
C8_FixedAggregates ==
    /\ Found =>
           /\ flour.mass # None => Dough.flour = flour.mass[1]
           /\ wheat_proteins.mass # None => Dough.wheat_proteins = wheat_proteins.mass[1]
    /\ \A v \in {total_water, total_leavener, total_salt} :
           BuildProblem(Params).vars[v + 1].bound = <<>>

C8_Witness == Found /\ flour.mass # None /\ Dough.water # Zero

C8_WitnessWheatProteins == Found /\ wheat_proteins.mass # None /\ Dough.water # Zero

\* C9: with a wheat-proteins ratio target p, every Found dough has
\* wheat_proteins / flour within 0.1% of p.
C9_WheatProteinsRatio ==
    (Found /\ wheat_proteins.ratio # None)
        => Close(DoughWheatProteinsRatio(Dough), wheat_proteins.ratio[1])

\* C10: a Found dough lists the problem's ingredients in order, with their
\* ids, and an index returned by add_ingredient is the 0-based position of
\* the ingredient added by that call.
C10_OrderAndIndex ==
    Found =>
        /\ Len(Dough.ingredients) = Len(ingredients)
        /\ \A k \in 1..N : Dough.ingredients[k][1] = ingredients[k].ingredient.id
        /\ \A k \in 1..N :
               returned[k] # None =>
                   /\ returned[k][1] + 1 = k
                   /\ Dough.ingredients[k][1] = ingredients[k].ingredient.id

C10_Witness ==
    /\ Found
    /\ N >= 2
    /\ \E j, k \in 1..N :
           /\ j < k
           /\ ingredients[j].ingredient.id # ingredients[k].ingredient.id
           /\ returned[j] = None
           /\ returned[k] # None
           /\ MassOf(k) # Zero

\* the k-th call is `first` and the next one is `second`, applied to its result
Chained(k, first, second) ==
    /\ k < Len(calls)
    /\ calls[k].fn = first
    /\ calls[k + 1].fn = second

\* w is a water ratio in [0, 1)
InUnitInterval(w) ==
    /\ IsFinite(w)
    /\ ~IsHuge(w)
    /\ w[1] >= 0
    /\ w[1] < w[2]

\* h is a finite f64, h >= 0
FiniteNonNegative(h) ==
    /\ IsFinite(h)
    /\ h[1] >= 0

C11_WitnessFromWaterRatio ==
    /\ Chained(1, "water_ratio_to_hydratation", "hydratation_to_water_ratio")
    /\ calls[1].arg = R(1, 3)
    /\ calls[1].ret.value = R(1, 2)
    /\ calls[2].ret.value = R(1, 3)

C11_WitnessHuge ==
    /\ Chained(1, "hydratation_to_water_ratio", "water_ratio_to_hydratation")
    /\ calls[1].arg = Huge
    /\ calls[2].ret.value = Inf

\* h < 0, as an f64
Negative(h) == h # NaN /\ h[1] < 0

\* C12: hydratation_to_water_ratio(h) fails an assertion when h < 0 or
\* h = +infinity, and for every other h returns h / (h + 1), a value in
\* [0, 1), never 1.
C12_HydratationDomain ==
    \A k \in 1..Len(calls) :
        calls[k].fn = "hydratation_to_water_ratio" =>
            LET h == calls[k].arg
                ret == calls[k].ret
            IN  IF Negative(h) \/ h = Inf THEN ret.tag = "Panic"
                ELSE /\ ret.tag = "Ok"
                     /\ InUnitInterval(ret.value)
                     /\ ret.value = R(h[1], h[1] + h[2])

\* C12, amended: the call fails an assertion when h < 0, h = +infinity or h
\* is NaN; for every other h it returns h / (h + 1), a value in [0, 1], which
\* is exactly 1 when h is so large that h + 1.0 rounds back to h.
C12_HydratationDomainClosed ==
    \A k \in 1..Len(calls) :
        calls[k].fn = "hydratation_to_water_ratio" =>
            LET h == calls[k].arg
                ret == calls[k].ret
            IN  IF Negative(h) \/ h = Inf \/ h = NaN THEN ret.tag = "Panic"
                ELSE /\ ret.tag = "Ok"
                     /\ IF IsHuge(h) THEN ret.value = One
                        ELSE /\ InUnitInterval(ret.value)
                             /\ ret.value = R(h[1], h[1] + h[2])

C12_Witness ==
    /\ Len(calls) = 1
    /\ calls[1].fn = "hydratation_to_water_ratio"
    /\ calls[1].arg = R(-1, 2)
    /\ calls[1].ret.tag = "Panic"
    /\ pc = "panicked"

C12_WitnessInfinity ==
    /\ Len(calls) = 1
    /\ calls[1].fn = "hydratation_to_water_ratio"
    /\ calls[1].arg = Inf
    /\ calls[1].ret.tag = "Panic"

C12_WitnessReturned ==
    /\ Len(calls) = 1
    /\ calls[1].fn = "hydratation_to_water_ratio"
    /\ calls[1].arg = R(1, 2)
    /\ calls[1].ret = Returned(R(1, 3))

C12_WitnessNaN ==
    /\ Len(calls) = 1
    /\ calls[1].fn = "hydratation_to_water_ratio"
    /\ calls[1].arg = NaN
    /\ calls[1].ret.tag = "Panic"

\* w > 1, as an f64
AboveOne(w) == w # NaN /\ (IF w[2] <= 0 THEN w[1] > 0 ELSE w[1] > w[2])

\* C13: water_ratio_to_hydratation(w) fails an assertion when w < 0 or
\* w > 1; for w in [0, 1] it returns w / (1 - w), which is >= 0, unclamped,
\* and w = 1 is accepted and gives +infinity.
C13_WaterRatioDomain ==
    \A k \in 1..Len(calls) :
        calls[k].fn = "water_ratio_to_hydratation" =>
            LET w == calls[k].arg
                ret == calls[k].ret
            IN  /\ (Negative(w) \/ AboveOne(w)) => ret.tag = "Panic"
                /\ InUnitInterval(w) =>
                       /\ ret.tag = "Ok"
                       /\ ret.value = R(w[1], w[2] - w[1])
                       /\ ret.value[1] >= 0
                /\ w = One => ret = Returned(Inf)

C13_Witness ==
    /\ Len(calls) = 1
    /\ calls[1].fn = "water_ratio_to_hydratation"
    /\ calls[1].arg = One
    /\ calls[1].ret = Returned(Inf)
    /\ pc = "converting"

C13_WitnessAboveOne ==
    /\ Len(calls) = 1
    /\ calls[1].fn = "water_ratio_to_hydratation"
    /\ calls[1].arg = R(7, 6)
    /\ calls[1].ret.tag = "Panic"

C13_WitnessReturned ==
    /\ Len(calls) = 1
    /\ calls[1].fn = "water_ratio_to_hydratation"
    /\ calls[1].arg = R(5, 6)
    /\ calls[1].ret = Returned(Int2R(5))

\* the total mass is fixed at 100 g, one ingredient at 200 g, the others free
PinnedScenario ==
    /\ mass = TargetByMass(Int2R(100))
    /\ \E k \in 1..N :
           /\ ingredients[k].target = TargetByMass(Int2R(200))
           /\ \A j \in 1..N : j # k => ingredients[j].target = TargetFree

\* C14: a problem whose total mass is fixed at 100 g while one ingredient is
\* fixed at 200 g, the other ingredients free, solves to NotFound.
C14_PinnedNotFound ==
    (pc # "building" /\ PinnedScenario) => (pc = "solved" /\ solution.tag = "NotFound")

\* the instances of the scenario that do solve to NotFound
C14_WitnessNotFound ==
    /\ pc = "solved"
    /\ PinnedScenario
    /\ solution.tag = "NotFound"
    /\ result = "Infeasible"

\* the instances that are Found instead: the free ingredients take negative
\* masses to bring the total down to 100 g
C14_WitnessFoundNegative ==
    /\ Found
    /\ PinnedScenario
    /\ ingredients[2].target = TargetByMass(Int2R(200))
    /\ DoughTotalMass(Dough) = Int2R(100)
    /\ MassOf(2) = Int2R(200)
    /\ MassOf(1)[1] < 0

\* C15: the starter-pinned scenario (mass and flour free, hydratation 0.75,
\* salt ratio 0.02, white flour free, stiff starter fixed at 100 g and at
\* ratio 0.2, tap water free, table salt free) is Found with flour 500 g,
\* water 375 g, total mass 885 g, added flour 433 g, added water 342 g,
\* starter 100 g and salt 10 g, each within 0.1%.
C15_StarterPinned ==
    (pc # "building" /\ Params = ByStarterMass) =>
        /\ Found
        /\ Close(Int2R(500), Dough.flour)
        /\ Close(Int2R(375), Dough.water)
        /\ Close(Int2R(885), DoughTotalMass(Dough))
        /\ Close(Int2R(885), solution.total_mass)
        /\ Dough.ingredients[1][1] = "white_flour"
        /\ Close(Int2R(433), MassOf(1))
        /\ Dough.ingredients[2][1] = "stiff_sourdough_starter"
        /\ Close(Int2R(100), MassOf(2))
        /\ Dough.ingredients[3][1] = "tap_water"
        /\ Close(Int2R(342), MassOf(3))
        /\ Dough.ingredients[4][1] = "table_salt"
        /\ Close(Int2R(10), MassOf(4))

C15_Witness ==
    /\ Found
    /\ Params = ByStarterMass
    /\ hydratation = R(3, 4)
    /\ ingredients[2].target = [mass |-> Some(Int2R(100)), ratio |-> Some(R(1, 5))]
    /\ MassOf(1) = R(1300, 3)

\* C16: the wheat-protein scenario (total mass 750 g, wheat-protein ratio
\* 0.15, hydratation 0.85, white flour and gluten powder free, stiff starter
\* at ratio 0.2, water and salt free) is Found with flour 401.07 g, water
\* 340.91 g, wheat proteins 60.16 g, gluten powder 12.69 g and wheat-protein
\* ratio 0.15, each within 0.1%.
C16_WheatProteins ==
    (pc # "building" /\ Params = ByWheatProteins) =>
        /\ Found
        /\ Close(R(40107, 100), Dough.flour)
        /\ Close(R(34091, 100), Dough.water)
        /\ Close(R(6016, 100), Dough.wheat_proteins)
        /\ Dough.ingredients[2][1] = "gluten_powder"
        /\ Close(R(1269, 100), MassOf(2))
        /\ Close(R(15, 100), DoughWheatProteinsRatio(Dough))

C16_Witness ==
    /\ Found
    /\ Params = ByWheatProteins
    /\ wheat_proteins = TargetByRatio(R(3, 20))
    /\ Len(Dough.ingredients) = 5
    /\ Dough.flour = R(75000, 187)

\* p has a fixed total mass, free flour, and the list white flour (free),
\* starter (ratio only), water (free), salt (free)
StarterByRatio(p) ==
    /\ p.mass.mass # None
    /\ p.flour = TargetFree
    /\ Len(p.ingredients) = 4
    /\ p.ingredients[1] = Entry(white_flour, TargetFree)
    /\ p.ingredients[2].ingredient.kind = "SourdoughStarter"
    /\ p.ingredients[2].target.mass = None
    /\ p.ingredients[2].target.ratio # None
    /\ p.ingredients[3] = Entry(tap_water, TargetFree)
    /\ p.ingredients[4] = Entry(table_salt, TargetFree)

\* p and q differ in the starter's ratio only, which is smaller in p
StarterRatioRaised(p, q) ==
    /\ StarterByRatio(p)
    /\ StarterByRatio(q)
    /\ [p EXCEPT !.ingredients[2].target = q.ingredients[2].target] = q
    /\ p.ingredients[2].target.ratio[1][1] * q.ingredients[2].target.ratio[1][2]
           < q.ingredients[2].target.ratio[1][1] * p.ingredients[2].target.ratio[1][2]

\* the added flour and the added water of b are strictly below those of a
LessAdded(a, b) ==
    /\ a.tag = "Found"
    /\ b.tag = "Found"
    /\ Less(b.dough.ingredients[1][2], a.dough.ingredients[1][2])
    /\ Less(b.dough.ingredients[3][2], a.dough.ingredients[3][2])

\* C17: for a fixed total mass and an otherwise identical problem (free
\* flour, ratio-pinned starter, free water, free salt), a larger starter ratio
\* gives strictly less added flour and strictly less added water.
C17_Monotonicity ==
    \A i, j \in 1..Len(history) :
        StarterRatioRaised(history[i].problem, history[j].problem)
            => LessAdded(history[i].outcome, history[j].outcome)

\* C17, amended: the same for a fixed total mass above zero.
C17_MonotonicityPositiveMass ==
    \A i, j \in 1..Len(history) :
        (StarterRatioRaised(history[i].problem, history[j].problem)
             /\ history[i].problem.mass.mass[1][1] > 0)
            => LessAdded(history[i].outcome, history[j].outcome)

C17_Witness ==
    /\ Len(history) = 2
    /\ StarterRatioRaised(history[1].problem, history[2].problem)
    /\ history[1].problem.mass = TargetByMass(Int2R(1000))
    /\ history[1].problem.ingredients[2].target = TargetByRatio(R(1, 10))
    /\ history[2].problem.ingredients[2].target = TargetByRatio(R(1, 5))
    /\ history[2].outcome.tag = "Found"
    /\ history[2].outcome.dough.flour = R(1000000, 1770)

\* the fixed total mass of zero: both doughs are all-zero
C17_WitnessZeroMass ==
    /\ Len(history) = 2
    /\ StarterRatioRaised(history[1].problem, history[2].problem)
    /\ history[1].problem.mass = TargetByMass(Zero)
    /\ history[1].outcome.tag = "Found"
    /\ history[2].outcome.tag = "Found"
    /\ history[1].outcome.dough = history[2].outcome.dough

\* no target of the problem fixes a mass
NoMassFixed ==
    /\ mass.mass = None
    /\ flour.mass = None
    /\ wheat_proteins.mass = None
    /\ \A k \in 1..N : ingredients[k].target.mass = None

AllZero(d) ==
    /\ d.flour = Zero
    /\ d.water = Zero
    /\ d.wheat_proteins = Zero
    /\ \A k \in 1..Len(d.ingredients) : d.ingredients[k][2] = Zero

\* C18: a problem whose constraints admit the all-zero point only (no fixed
\* mass anywhere, the solver reporting an optimum) is Found with zero masses,
\* not NotFound, and solve does not panic on it.
C18_ZeroDoughFound ==
    (pc # "building" /\ NoMassFixed /\ result = "Optimal")
        => (Found /\ Len(Dough.ingredients) = N /\ AllZero(Dough))

\* the build without debug assertions returns the all-zero dough
C18_WitnessFound ==
    /\ Found
    /\ NoMassFixed
    /\ N >= 2
    /\ AllZero(Dough)
    /\ ~debug_assertions

\* the build with debug assertions panics on the same problems
C18_WitnessPanic ==
    /\ pc = "panicked"
    /\ NoMassFixed
    /\ result = "Optimal"
    /\ debug_assertions

\* what holds of the problems without a fixed mass: solve panics exactly in
\* the build with debug assertions, and returns the all-zero dough otherwise
C18_ZeroDoughByBuild ==
    (pc # "building" /\ NoMassFixed /\ result = "Optimal")
        => IF debug_assertions THEN pc = "panicked"
           ELSE Found /\ AllZero(Dough)

FlourBrought ==
    SumSeq(Force([k \in 1..N |->
        IF ingredients[k].ingredient.category = "Flour"
               \/ ingredients[k].ingredient.kind = "SourdoughStarter"
        THEN Mul(MassOf(k), Sub(One, ingredients[k].ingredient.water))
        ELSE Zero]))

\* the water the ingredients bring, counting those above 0.001 of water only
WaterBrought ==
    SumSeq(Force([k \in 1..N |->
        IF ingredients[k].ingredient.water[1] * 1000 > ingredients[k].ingredient.water[2]
        THEN Mul(MassOf(k), ingredients[k].ingredient.water)
        ELSE Zero]))

\* C20: in every Found dough, flour is the sum of mass * (1 - water) over the
\* ingredients with flour and water the sum of mass * water over those with
\* more than 0.001 of water; an ingredient counts in several totals at once,
\* and a leavener that is not a sourdough starter brings no flour.
C20_FlourAndWater ==
    Found =>
        /\ Dough.flour = FlourBrought
        /\ Dough.water = WaterBrought
        /\ DoughTotalMass(Dough) = SumSeq(Force([k \in 1..N |-> MassOf(k)]))

\* a starter counted three times: 100 g in the total mass, 2/3 of it in the
\* flour, 1/3 of it in the water
C20_Witness ==
    /\ Found
    /\ \E k \in 1..N :
           /\ ingredients[k].ingredient = stiff_sourdough_starter
           /\ MassOf(k) = Int2R(100)
           /\ \E j \in 1..N : j # k /\ ingredients[j].ingredient = white_flour
                                /\ Dough.flour = Add(MassOf(j), R(200, 3))
           /\ \E j \in 1..N : j # k /\ ingredients[j].ingredient = tap_water
                                /\ Dough.water = Add(MassOf(j), R(100, 3))

\* a yeast with a mass of its own and none of it in the flour
C20_WitnessYeast ==
    /\ Found
    /\ \E k \in 1..N :
           /\ ingredients[k].ingredient = instant_yeast
           /\ MassOf(k) # Zero
           /\ \E j \in 1..N : ingredients[j].ingredient = white_flour
                                /\ Dough.flour = MassOf(j)

\* the flour is fixed, and the k-th ingredient has a fixed mass whose water
\* alone exceeds hydratation * flour, among free white flour, water and salt
BringsTooMuchWater(k) ==
    /\ flour.mass # None
    /\ mass = TargetFree
    /\ N = 4
    /\ k = 2
    /\ ingredients[1] = Entry(white_flour, TargetFree)
    /\ ingredients[3] = Entry(tap_water, TargetFree)
    /\ ingredients[4] = Entry(table_salt, TargetFree)
    /\ ingredients[k].target.mass # None
    /\ ingredients[k].target.ratio = None
    /\ Less(Mul(hydratation, flour.mass[1]),
            Mul(ingredients[k].target.mass[1], ingredients[k].ingredient.water))

\* C21: no variable has a lower bound: for a fixed-mass starter or liquid that
\* alone brings more water than the hydratation allows for the fixed flour,
\* solve returns Found with a negative ingredient mass, not NotFound.
C21_NegativeMassFound ==
    (pc # "building" /\ \E k \in 1..N : BringsTooMuchWater(k)) =>
        /\ Found
        /\ Dough.flour = flour.mass[1]
        /\ Dough.water = Mul(hydratation, Dough.flour)
        /\ MassOf(2) = ingredients[2].target.mass[1]
        /\ MassOf(3)[1] < 0

C21_Witness ==
    /\ Found
    /\ BringsTooMuchWater(2)
    /\ ingredients[2].ingredient = milk
    /\ MassOf(3) = Int2R(-105)
    /\ MassOf(1) = Int2R(100)

C21_WitnessStarter ==
    /\ Found
    /\ BringsTooMuchWater(2)
    /\ ingredients[2].ingredient = stiff_sourdough_starter
    /\ MassOf(1) = Int2R(-100)
    /\ MassOf(3) = Int2R(-25)

\* the total mass is fixed and two flours are free, with no ratio and no
\* wheat-proteins target between them
TwoFreeFlours ==
    /\ mass.mass # None
    /\ flour = TargetFree
    /\ wheat_proteins = TargetFree
    /\ \A k \in 1..N : ingredients[k].target = TargetFree
    /\ \E j, k \in 1..N :
           /\ j # k
           /\ ingredients[j].ingredient.category = "Flour"
           /\ ingredients[k].ingredient.category = "Flour"
    /\ \E k \in 1..N : ingredients[k].ingredient = tap_water
    /\ \E k \in 1..N : ingredients[k].ingredient = table_salt

\* C22: when the constraints leave the system under-determined (two free
\* flours and no ratio between them), solve still returns Found, the
\* objective choosing among the feasible points.
C22_UnderDeterminedFound ==
    (pc # "building" /\ TwoFreeFlours) => Found

\* what solve returns for it: the objective has no minimum over the feasible
\* points, the solver reports Unbounded and solve returns NotFound
C22_WitnessNotFound ==
    /\ pc = "solved"
    /\ TwoFreeFlours
    /\ result = "Unbounded"
    /\ solution.tag = "NotFound"

C22_UnderDeterminedNotFound ==
    (pc # "building" /\ TwoFreeFlours)
        => (pc = "solved" /\ result = "Unbounded" /\ solution.tag = "NotFound")

\* b is equal to a, or strictly between a - a * 0.001 and a + a * 0.001
WithinOfLeft(a, b) ==
    /\ IsFinite(a)
    /\ IsFinite(b)
    /\ \/ a = b
       \/ /\ Less(Sub(a, Mul(a, R(1, 1000))), b)
          /\ Less(b, Add(a, Mul(a, R(1, 1000))))

\* C23: whenever the solver returns an optimal point, the two consistency
\* assertions of solve_impl hold: the dough's total mass is within 0.1% of
\* the solved total_mass variable and its hydratation within 0.1% of the
\* target, whatever the sign and the size of the solved values.
C23_AssertionsHold ==
    (pc # "building" /\ result = "Optimal") =>
        /\ Found
        /\ WithinOfLeft(DoughTotalMass(Dough), solution.total_mass)
        /\ WithinOfLeft(DoughHydratation(Dough), hydratation)

\* an optimal point with negative masses on which both assertions hold
C23_WitnessNegative ==
    /\ Found
    /\ debug_assertions
    /\ \E k \in 1..N : MassOf(k)[1] < 0
    /\ WithinOfLeft(DoughTotalMass(Dough), solution.total_mass)
    /\ WithinOfLeft(DoughHydratation(Dough), hydratation)

\* the optimal point without flour: the hydratation assertion is false of it,
\* the build without debug assertions returns it all the same
C23_WitnessZeroFlour ==
    /\ Found
    /\ ~debug_assertions
    /\ Dough.flour = Zero
    /\ ~WithinOfLeft(DoughHydratation(Dough), hydratation)

\* what holds of every optimal point: the total mass assertion, and the
\* hydratation assertion unless the flour is zero
C23_AssertionsHoldWithFlour ==
    Found =>
        /\ WithinOfLeft(DoughTotalMass(Dough), solution.total_mass)
        /\ Dough.flour # Zero => WithinOfLeft(DoughHydratation(Dough), hydratation)

\* the proteins the ingredients bring, counting the flours and the sourdough
\* starters only
ProteinsBrought ==
    SumSeq(Force([k \in 1..N |->
        IF ingredients[k].ingredient.category = "Flour"
               \/ ingredients[k].ingredient.kind = "SourdoughStarter"
        THEN Mul(MassOf(k), ingredients[k].ingredient.proteins)
        ELSE Zero]))

\* the constraints of the problem that mention the wheat proteins total
WheatProteinsRows ==
    LET cons == BuildProblem(Params).constraints
    IN  {c \in 1..Len(cons) : CoefOf(cons[c], total_wheat_proteins) # Zero}

\* C24: the dough's wheat proteins are the sum of mass * proteins over the
\* ingredients with flour, the proteins of the others never counted; with a
\* free wheat-proteins target no ratio constraint is added, the sum being
\* the only constraint on the total.
C24_WheatProteinsSum ==
    /\ Found => Dough.wheat_proteins = ProteinsBrought
    /\ Cardinality(WheatProteinsRows) = IF wheat_proteins.ratio # None THEN 2 ELSE 1

\* a milk or a yeast with proteins of its own and none in the total
C24_Witness ==
    /\ Found
    /\ wheat_proteins = TargetFree
    /\ Dough.wheat_proteins # Zero
    /\ \E k \in 1..N :
           /\ ~(ingredients[k].ingredient.category = "Flour")
           /\ ingredients[k].ingredient.kind # "SourdoughStarter"
           /\ ingredients[k].ingredient.proteins # Zero
           /\ MassOf(k) # Zero

\* C25: has_flour is true iff the category is Flour or the kind is
\* SourdoughStarter, whatever the category; flour_ratio is 1 - water with
\* flour and 0 without; has_water and has_salt are true iff the ratio is
\* strictly above 0.001; is_leavener is true iff the category is Leavener.
C25_RolePredicates ==
    \A k \in 1..Len(calls) :
        LET i == calls[k].arg
            r == calls[k].ret
            floury == i.category = "Flour" \/ i.kind = "SourdoughStarter"
        IN  /\ calls[k].fn = "has_flour" => (r <=> floury)
            /\ calls[k].fn = "flour_ratio" =>
                   r = (IF floury THEN R(i.water[2] - i.water[1], i.water[2]) ELSE Zero)
            /\ calls[k].fn = "has_water" => (r <=> i.water[1] * 1000 > i.water[2])
            /\ calls[k].fn = "has_salt" => (r <=> i.salt[1] * 1000 > i.salt[2])
            /\ calls[k].fn = "is_leavener" => (r <=> i.category = "Leavener")

\* a water ratio of exactly 0.001 is no water, and a starter filed under
\* another category has flour
C25_Witness ==
    /\ Len(calls) = 2
    /\ calls[1].fn = "has_water"
    /\ calls[1].arg.water = R(1, 1000)
    /\ calls[1].ret = FALSE
    /\ calls[2].fn = "has_flour"
    /\ calls[2].arg.kind = "SourdoughStarter"
    /\ calls[2].arg.category = "Mixed"
    /\ calls[2].ret = TRUE

C25_WitnessAbove ==
    /\ Len(calls) = 2
    /\ calls[1].fn = "has_salt"
    /\ calls[1].arg.salt = R(2, 1000)
    /\ calls[1].ret = TRUE
    /\ calls[2].fn = "flour_ratio"
    /\ calls[2].arg.category = "Flour"
    /\ calls[2].arg.water = R(1, 3)
    /\ calls[2].ret = R(2, 3)

\* the fields of the problem a builder step changed
ChangedFields ==
    {f \in {"mass", "flour", "wheat_proteins", "hydratation", "salt_ratio", "ingredients"} :
         \/ f = "mass" /\ mass' # mass
         \/ f = "flour" /\ flour' # flour
         \/ f = "wheat_proteins" /\ wheat_proteins' # wheat_proteins
         \/ f = "hydratation" /\ hydratation' # hydratation
         \/ f = "salt_ratio" /\ salt_ratio' # salt_ratio
         \/ f = "ingredients" /\ ingredients' # ingredients}

OneAppended ==
    /\ Len(ingredients') = Len(ingredients) + 1
    /\ SubSeq(ingredients', 1, Len(ingredients)) = ingredients

BuilderFrame ==
    (pc = "building" /\ pc' = "building") =>
        /\ Cardinality(ChangedFields) <= 1
        /\ "ingredients" \in ChangedFields => OneAppended
        /\ returned' # returned => OneAppended

DefaultProblem ==
    /\ mass = [mass |-> None, ratio |-> None]
    /\ flour = [mass |-> None, ratio |-> None]
    /\ wheat_proteins = [mass |-> None, ratio |-> None]
    /\ hydratation = <<7, 10>>
    /\ salt_ratio = <<1, 50>>
    /\ ingredients = <<>>

\* C26: the default problem has free mass, flour and wheat proteins,
\* hydratation 0.7, salt ratio 0.02 and no ingredients; a setter replaces
\* one field and leaves the others and the ingredients as they were, and
\* ingredient() and add_ingredient() append one entry after the earlier ones
\* and leave every other field as it was.
C26_DefaultAndFrame == DefaultProblem /\ [][BuilderFrame]_vars

\* three fields set and two ingredients pushed, the other fields at their defaults
C26_Witness ==
    /\ pc = "building"
    /\ mass # TargetFree
    /\ hydratation # R(7, 10)
    /\ Len(ingredients) = 2
    /\ ingredients[1] # ingredients[2]
    /\ flour = TargetFree
    /\ wheat_proteins = TargetFree
    /\ salt_ratio = R(1, 50)

ScaleTarget(t, k) ==
    IF t.mass = None THEN t ELSE [t EXCEPT !.mass = Some(Mul(k, t.mass[1]))]

\* the problem with every fixed mass multiplied by k
ScaleProblem(p, k) ==
    [p EXCEPT !.mass = ScaleTarget(p.mass, k),
              !.flour = ScaleTarget(p.flour, k),
              !.wheat_proteins = ScaleTarget(p.wheat_proteins, k),
              !.ingredients = Force([j \in 1..Len(p.ingredients) |->
                  [p.ingredients[j] EXCEPT !.target = ScaleTarget(p.ingredients[j].target, k)]])]

FixedMassCount(p) ==
    Cardinality({f \in {"mass", "flour", "wheat_proteins"} : p[f].mass # None})
        + Cardinality({j \in 1..Len(p.ingredients) : p.ingredients[j].target.mass # None})

ScaleDough(d, k) ==
    [flour |-> Mul(k, d.flour),
     water |-> Mul(k, d.water),
     wheat_proteins |-> Mul(k, d.wheat_proteins),
     ingredients |-> Force([j \in 1..Len(d.ingredients) |->
                        <<d.ingredients[j][1], Mul(k, d.ingredients[j][2])>>])]

ScaleFactors == {Int2R(2), R(1, 2)}

\* the second problem is the first with its one fixed mass, not zero, scaled by k
ScaledBy(p, q, k) ==
    /\ FixedMassCount(p) = 1
    /\ q = ScaleProblem(p, k)
    /\ q # p

\* C27: when a problem with exactly one fixed mass m (the total mass, the
\* flour or one ingredient) solves to Found(D), the problem with k * m in
\* its place solves to Found with every ingredient mass and every aggregate
\* of D multiplied by k, and the same hydratation, salt and wheat proteins
\* ratio.
C27_Homogeneity ==
    \A i, j \in 1..Len(history) : \A k \in ScaleFactors :
        (ScaledBy(history[i].problem, history[j].problem, k)
            /\ history[i].outcome.tag = "Found")
        => LET d == history[i].outcome.dough
               e == history[j].outcome.dough
           IN  /\ history[j].outcome.tag = "Found"
               /\ e = ScaleDough(d, k)
               /\ history[j].outcome.total_mass = Mul(k, history[i].outcome.total_mass)
               /\ DoughTotalMass(e) = Mul(k, DoughTotalMass(d))
               /\ DoughHydratation(e) = DoughHydratation(d)
               /\ DoughWheatProteinsRatio(e) = DoughWheatProteinsRatio(d)

\* a solve for a fixed flour, starter or total mass followed by one for the
\* double
C27_Witness ==
    /\ Len(history) = 2
    /\ ScaledBy(history[1].problem, history[2].problem, Int2R(2))
    /\ history[1].problem.flour.mass # None
    /\ history[1].outcome.tag = "Found"
    /\ history[2].outcome.tag = "Found"
    /\ history[2].outcome.dough.flour = Int2R(800)

C27_WitnessStarter ==
    /\ Len(history) = 2
    /\ ScaledBy(history[1].problem, history[2].problem, Int2R(2))
    /\ history[1].problem.ingredients[2].target.mass # None
    /\ history[1].outcome.tag = "Found"
    /\ history[2].outcome.dough.ingredients[2][2] = Int2R(200)

C27_WitnessTotalMass ==
    /\ Len(history) = 2
    /\ ScaledBy(history[1].problem, history[2].problem, R(1, 2))
    /\ history[1].problem.mass.mass # None
    /\ history[1].outcome.tag = "Found"
    /\ history[2].outcome.total_mass = Int2R(500)

BothReturned == pc \in {"solved", "panicked"} /\ calls # <<>>

\* the seven quantities of the Bread, read from the DoughSolution
SameQuantities(b, o) ==
    /\ b.total_weight = o.total_mass
    /\ b.total_flour = o.dough.flour
    /\ b.added_flour = o.dough.ingredients[1][2]
    /\ b.total_water = o.dough.water
    /\ b.added_water = o.dough.ingredients[3][2]
    /\ b.total_starter = o.dough.ingredients[2][2]
    /\ b.added_salt = o.dough.ingredients[4][2]

\* C28: bread_solve and DoughProblem::solve agree on the four-ingredient
\* problem with the same pinned quantity: the same total weight, total
\* flour, added flour, total water, added water, starter and salt; where
\* bread_solve panics, solve returns NotFound, and nowhere else do they differ.
C28_LegacyAgrees ==
    BothReturned =>
        \A k \in 1..Len(calls) :
            IF calls[k].ret.tag = "Panic" THEN solution.tag = "NotFound"
            ELSE /\ solution.tag = "Found"
                 /\ SameQuantities(calls[k].ret.bread, solution)

\* the agreement where the pinned quantity is not zero
C28_LegacyAgreesPositive ==
    (BothReturned /\ value.target.mass # Zero) =>
        \A k \in 1..Len(calls) :
            IF calls[k].ret.tag = "Panic" THEN solution.tag = "NotFound"
            ELSE /\ solution.tag = "Found"
                 /\ SameQuantities(calls[k].ret.bread, solution)

\* tests::bread_solver_by_flour and tests::solve_by_flour_content
C28_WitnessAgree ==
    /\ BothReturned
    /\ value.target = TargetBread("Flour", Int2R(400))
    /\ value.starter_hydratation = R(1, 2)
    /\ calls[1].ret.tag = "Bread"
    /\ calls[1].ret.bread.total_weight = Int2R(708)
    /\ solution.tag = "Found"
    /\ solution.total_mass = Int2R(708)

C28_WitnessFailure ==
    /\ BothReturned
    /\ calls[1].ret.tag = "Panic"
    /\ solution.tag = "NotFound"

\* bread_solve returns the bread of nothing and solve panics
C28_WitnessZero ==
    /\ BothReturned
    /\ value.target.mass = Zero
    /\ calls[1].ret.tag = "Bread"
    /\ calls[1].ret.bread = NoBread
    /\ solution.tag = "Panic"

\* the step in which the create request r is answered Ok
CreateSucceeds(r) ==
    /\ requests[r].handler = "post_ingredient"
    /\ requests[r].pc # "done"
    /\ requests'[r].pc = "done"
    /\ requests'[r].response.status = "Ok"

\* C29: a create whose id is already stored is answered with a conflict and
\* leaves the stored ingredient as it is, under every interleaving of the
\* requests: a create that succeeds found its id not stored, and no step of
\* a create changes an ingredient that is stored.
C29_CreateNeverOverwrites ==
    [][\A r \in 1..Len(requests) :
           /\ CreateSucceeds(r) => ~ContainsKey(tree, requests[r].body.id)
           /\ requests[r].handler = "post_ingredient" /\ requests'[r] # requests[r]
                  => \A id \in DOMAIN tree : ContainsKey(tree', id) /\ tree'[id] = tree[id]]_vars

\* the same of a create that no other request runs beside
C29_CreateAloneNeverOverwrites ==
    [][Len(requests) = 1 =>
           /\ CreateSucceeds(1) => ~ContainsKey(tree, requests[1].body.id)
           /\ requests[1].handler = "post_ingredient" /\ requests'[1] # requests[1]
                  => \A id \in DOMAIN tree : ContainsKey(tree', id) /\ tree'[id] = tree[id]]_vars

\* two creates of one id, both answered Ok
C29_WitnessBothSucceed ==
    /\ Len(requests) = 2
    /\ \A r \in 1..2 :
           /\ requests[r].handler = "post_ingredient"
           /\ requests[r].response.status = "Ok"
    /\ requests[1].body.id = requests[2].body.id
    /\ requests[1].body # requests[2].body

C29_WitnessConflict ==
    /\ Len(requests) = 1
    /\ requests[1].handler = "post_ingredient"
    /\ requests[1].response.status = "Conflict"
    /\ tree \in StoredAtStart

Answered(r, handler, status) ==
    /\ requests[r].handler = handler
    /\ requests[r].pc = "done"
    /\ requests[r].response.status = status

\* the list of a successful GET: one ingredient per requested id, in the
\* order of the ids; and no list with a not-found
GetListed(r) ==
    /\ Answered(r, "get_ingredients", "NotFound") => Len(requests[r].response.body) = 0
    /\ Answered(r, "get_ingredients", "Ok") =>
           /\ Len(requests[r].response.body) = Len(requests[r].body)
           /\ \A k \in 1..Len(requests[r].body) :
                  requests[r].response.body[k].id = requests[r].body[k]

\* C30: a DELETE with an id that is not stored is answered not-found and has
\* removed no ingredient; a GET with an id that is not stored is answered
\* not-found without a partial list, and a GET that succeeds lists the
\* ingredients in the order of the requested ids.
C30_AllOrNothing ==
    \A r \in 1..Len(requests) :
        /\ Answered(r, "delete_ingredients", "NotFound") => Len(requests[r].acc) = 0
        /\ GetListed(r)

\* the part of C30 about GET
C30_GetAllOrNothing == \A r \in 1..Len(requests) : GetListed(r)

\* a DELETE alone, answered not-found after it removed the first of its ids
C30_WitnessPartialDelete ==
    /\ Len(requests) = 1
    /\ Answered(1, "delete_ingredients", "NotFound")
    /\ requests[1].body = <<"01A", "01B">>
    /\ Len(requests[1].acc) = 1
    /\ tree = <<>>

C30_WitnessGetInOrder ==
    /\ Len(requests) = 1
    /\ Answered(1, "get_ingredients", "Ok")
    /\ requests[1].body = <<"01B", "01A">>
    /\ Len(requests[1].response.body) = 2
    /\ requests[1].response.body[1].id = "01B"

====
